---------------------------- MODULE Spec2Model ----------------------------
(***************************************************************************)
(* Model of the Telegram personal-finance bot in src/main.py: the money    *)
(* parser, the SQLite tables behind class Database, the aiogram FSM        *)
(* session (state + data) of every user, the two module-level context      *)
(* dictionaries, and the router's handlers.                                *)
(*                                                                         *)
(* Texts are sequences of one-character strings, so that lower(), strip(), *)
(* split() and the parser work on characters as the Python code does.      *)
(* Money is a Python float: the model keeps the integral values exactly    *)
(* and float('nan') as the value NaN; SQLite stores a NaN as NULL.         *)
(***************************************************************************)
EXTENDS Integers, Sequences, FiniteSets, TLC

VARIABLES
    users,                      \* rows of table users (the registered ids)
    wallets,                    \* rows of table wallets, ordered by id
    transactions,               \* rows of table transactions, ordered by id
    next_tx_id,                 \* AUTOINCREMENT counter of transactions
    categories,                 \* rows of table categories, ordered by id
    next_cat_id,                \* AUTOINCREMENT counter of categories
    limits,                     \* rows of table limits
    saving_goals,               \* rows of table saving_goals, ordered by id
    saving_goal_transactions,   \* rows of table saving_goal_transactions
    budgets,                    \* rows of table budgets
    fsm_state,                  \* FSMContext state of every user
    fsm_data,                   \* FSMContext data of every user
    user_goal_action_context,   \* module-level dict, keyed by user
    user_edit_tx_context,       \* module-level dict, keyed by user
    now,                        \* the clock: datetime.utcnow()
    reply,                      \* what the last handler answered
    message,                    \* message.text of the last update handled
    calc,                       \* the last call of a pure function
    tasks                       \* the handler coroutines that are suspended

vars == <<users, wallets, transactions, next_tx_id, categories, next_cat_id,
          limits, saving_goals, saving_goal_transactions, budgets,
          fsm_state, fsm_data, user_goal_action_context,
          user_edit_tx_context, now, reply, message, calc, tasks>>

db_vars == <<users, wallets, transactions, next_tx_id, categories,
             next_cat_id, limits, saving_goals, saving_goal_transactions,
             budgets>>

-----------------------------------------------------------------------------
(* Python floats and SQLite values *)

\* float('nan'), the non-number the amounts of this model can be
\* (float('inf') is accepted by the parser as well and is not modelled).
NaN == -2147483647

\* SQL NULL, read back by sqlite3 as None.
NULL == -2147483646

IsNum(v) == v # NaN /\ v # NULL

\* sqlite3 binds a NaN as NULL.
ToSql(v) == IF v = NaN THEN NULL ELSE v

\* Python's a + b, a - b, a * b on floats: NaN is absorbing.
\* The sum that forgets what was there.
FAddForgetful(a, b) == b

FAdd(a, b) == IF a = NaN \/ b = NaN THEN NaN ELSE a + b
FSub(a, b) == IF a = NaN \/ b = NaN THEN NaN ELSE a - b
FMul(a, b) == IF a = NaN \/ b = NaN THEN NaN ELSE a * b

\* Python's a <= b and a > b on floats: every comparison with NaN is False.
FLe(a, b) == a # NaN /\ b # NaN /\ a <= b
\* The comparison turned around.
FLt(a, b) == a # NaN /\ b # NaN /\ a < b

FGt(a, b) == a # NaN /\ b # NaN /\ a > b

-----------------------------------------------------------------------------
(* str methods *)

Digits == {"0", "1", "2", "3", "4", "5", "6", "7", "8", "9"}

DigitVal(c) ==
    CASE c = "0" -> 0 [] c = "1" -> 1 [] c = "2" -> 2 [] c = "3" -> 3
      [] c = "4" -> 4 [] c = "5" -> 5 [] c = "6" -> 6 [] c = "7" -> 7
      [] c = "8" -> 8 [] c = "9" -> 9

LowerChar(c) ==
    CASE c = "A" -> "a" [] c = "B" -> "b" [] c = "E" -> "e" [] c = "I" -> "i"
      [] c = "K" -> "k" [] c = "L" -> "l" [] c = "N" -> "n" [] c = "P" -> "p"
      [] c = "R" -> "r" [] c = "T" -> "t" [] c = "U" -> "u" [] c = "X" -> "x"
      [] c = "Ệ" -> "ệ"
      [] OTHER -> c

lower(s) == [i \in 1..Len(s) |-> LowerChar(s[i])]

IsSpace(c) == c = " "

RECURSIVE lstrip(_)
lstrip(s) == IF s # <<>> /\ IsSpace(Head(s)) THEN lstrip(Tail(s)) ELSE s

RECURSIVE rstrip(_)
rstrip(s) ==
    IF s # <<>> /\ IsSpace(s[Len(s)]) THEN rstrip(SubSeq(s, 1, Len(s) - 1))
    ELSE s

strip(s) == rstrip(lstrip(s))

\* s.replace(old, new), left to right, non-overlapping.
RECURSIVE replace(_, _, _)
replace(s, old, new) ==
    IF Len(s) < Len(old) THEN s
    ELSE IF SubSeq(s, 1, Len(old)) = old
         THEN new \o replace(SubSeq(s, Len(old) + 1, Len(s)), old, new)
         ELSE <<Head(s)>> \o replace(Tail(s), old, new)

\* old in s
RECURSIVE contains(_, _)
contains(s, old) ==
    IF Len(s) < Len(old) THEN FALSE
    ELSE SubSeq(s, 1, Len(old)) = old \/ contains(Tail(s), old)

\* The test at the other end of the text.
startswith(s, pre) == Len(s) >= Len(pre) /\ SubSeq(s, 1, Len(pre)) = pre

endswith(s, suf) ==
    Len(s) >= Len(suf) /\ SubSeq(s, Len(s) - Len(suf) + 1, Len(s)) = suf

\* The first whitespace-free token of a stripped text, and what follows it.
RECURSIVE FirstToken(_)
FirstToken(s) ==
    IF s = <<>> \/ IsSpace(Head(s)) THEN <<>>
    ELSE <<Head(s)>> \o FirstToken(Tail(s))

\* No split at all: the whole text as one token.
split0(s) == IF s = <<>> THEN <<>> ELSE <<s>>

\* s.split(maxsplit=1): leading whitespace skipped, the rest after the first
\* whitespace run kept as it is (without its leading whitespace).
split1(s) ==
    LET t    == lstrip(s)
        tok  == FirstToken(t)
        rest == lstrip(SubSeq(t, Len(tok) + 1, Len(t)))
    IN  IF tok = <<>> THEN <<>>
        ELSE IF rest = <<>> THEN <<tok>> ELSE <<tok, rest>>

RECURSIVE DigitsToInt(_)
DigitsToInt(s) ==
    IF s = <<>> THEN 0
    ELSE 10 * DigitsToInt(SubSeq(s, 1, Len(s) - 1)) + DigitVal(s[Len(s)])

AllDigits(s) == s # <<>> /\ \A i \in 1..Len(s) : s[i] \in Digits

\* float(t) on the forms the inputs use: digits with an optional sign, and
\* "nan" with an optional sign. ok = FALSE stands for ValueError.
float(t) ==
    LET signed == t # <<>> /\ Head(t) \in {"+", "-"}
        body   == IF signed THEN Tail(t) ELSE t
        neg    == signed /\ Head(t) = "-"
    IN  IF AllDigits(body)
        THEN [ok |-> TRUE,
              v  |-> IF neg THEN 0 - DigitsToInt(body) ELSE DigitsToInt(body)]
        ELSE IF lower(body) = <<"n", "a", "n">>
        THEN [ok |-> TRUE, v |-> NaN]
        ELSE [ok |-> FALSE, v |-> 0]

-----------------------------------------------------------------------------
(* parse_vietnamese_money and extract_amount_and_note *)

Failed == [ok |-> FALSE, v |-> 0]

parse_vietnamese_money(text) ==
    LET t0   == strip(lower(text))
        t1   == replace(t0, <<" ">>, <<>>)
        t2   == IF contains(t1, <<"t", "r", "i", "ệ", "u">>)
                THEN replace(t1, <<"t", "r", "i", "ệ", "u">>, <<"t", "r">>)
                ELSE t1
        mult == IF endswith(t2, <<"k">>) THEN 1000
                ELSE IF endswith(t2, <<"t", "r">>) THEN 1000000
                ELSE 1
        t3   == IF endswith(t2, <<"k">>) THEN SubSeq(t2, 1, Len(t2) - 1)
                ELSE IF endswith(t2, <<"t", "r">>)
                     THEN SubSeq(t2, 1, Len(t2) - 2)
                     ELSE t2
        t4   == replace(replace(t3, <<".">>, <<>>), <<",">>, <<>>)
        num  == float(t4)
    IN  IF t0 = <<>> THEN Failed
        ELSE IF t4 = <<>> THEN Failed
        ELSE IF ~num.ok THEN Failed
        ELSE [ok |-> TRUE, v |-> FMul(num.v, mult)]

\* Returns [ok, v, note]; ok = FALSE stands for the ValueError raised.
extract_amount_and_note(raw) ==
    LET r     == strip(raw)
        parts == split1(r)
        amt   == parse_vietnamese_money(parts[1])
    IN  IF r = <<>> THEN [ok |-> FALSE, v |-> 0, note |-> <<>>]
        ELSE IF ~amt.ok THEN [ok |-> FALSE, v |-> 0, note |-> <<>>]
        ELSE [ok |-> TRUE, v |-> amt.v,
              note |-> IF Len(parts) = 1 THEN <<>> ELSE strip(parts[2])]

-----------------------------------------------------------------------------
(* Names. Every literal of the source is kept as a text; the long            *)
(* Vietnamese labels are shortened to a few characters each.                 *)

Users == {1, 2}

\* default_wallets of ensure_default_wallets: (name, purpose).
DefaultWallets ==
    << [name |-> <<"E">>, purpose |-> "4-2-2-2 essential"],
       [name |-> <<"L">>, purpose |-> "4-2-2-2 long_term"],
       [name |-> <<"I">>, purpose |-> "4-2-2-2 invest"],
       [name |-> <<"P">>, purpose |-> "4-2-2-2 personal"] >>

\* default_expense and default_income of ensure_default_categories.
DefaultCategories ==
    << [name |-> <<"a", "u">>, type |-> "expense"],
       [name |-> <<"d", "l">>, type |-> "expense"],
       [name |-> <<"n", "c">>, type |-> "expense"],
       [name |-> <<"g", "t">>, type |-> "expense"],
       [name |-> <<"g", "d">>, type |-> "expense"],
       [name |-> <<"k">>,      type |-> "expense"],
       [name |-> <<"l">>,      type |-> "income"],
       [name |-> <<"t">>,      type |-> "income"],
       [name |-> <<"t", "k">>, type |-> "income"] >>

\* The category labels salary_enter_amount and transfer_enter_note write.
SalaryCategory(i) == <<"L", "u", "o", "n", "g", "-">> \o DefaultWallets[i].name
TransferToCategory(name) == <<">">> \o name
TransferFromCategory(name) == <<"<">> \o name

-----------------------------------------------------------------------------
(* class Database: every method as an operator from tables to tables *)

RECURSIVE SumSeq(_)
SumSeq(s) == IF s = <<>> THEN 0 ELSE Head(s) + SumSeq(Tail(s))

\* SQL SUM(expr) with COALESCE(.., 0): NULL values are skipped.
SqlSum(vals) == SumSeq(SelectSeq(vals, LAMBDA v : v # NULL))

\* Returns [rows, next]: the categories table and its AUTOINCREMENT counter.
ensure_default_categories(rows, next, user_id) ==
    IF \E i \in 1..Len(rows) : rows[i].user_id = user_id
    THEN [rows |-> rows, next |-> next]
    ELSE [rows |-> rows \o
                   [i \in 1..Len(DefaultCategories) |->
                       [id |-> next + i - 1, user_id |-> user_id,
                        name |-> DefaultCategories[i].name,
                        type |-> DefaultCategories[i].type]],
          next |-> next + Len(DefaultCategories)]

get_categories(rows, user_id, cat_type) ==
    SelectSeq(rows, LAMBDA c : c.user_id = user_id /\ c.type = cat_type)

add_category(rows, next, user_id, name, cat_type) ==
    [rows |-> Append(rows, [id |-> next, user_id |-> user_id,
                            name |-> name, type |-> cat_type]),
     next |-> next + 1]

delete_category(rows, user_id, cat_id) ==
    SelectSeq(rows, LAMBDA c : ~(c.id = cat_id /\ c.user_id = user_id))

get_wallets(rows, user_id) == SelectSeq(rows, LAMBDA w : w.user_id = user_id)

\* The insertion without the count that guards it.
ensure_default_wallets_unguarded(rows, user_id) ==
    rows \o [i \in 1..Len(DefaultWallets) |->
                [id |-> Len(rows) + i, user_id |-> user_id,
                 name |-> DefaultWallets[i].name,
                 purpose |-> DefaultWallets[i].purpose]]

ensure_default_wallets(rows, user_id) ==
    IF get_wallets(rows, user_id) # <<>> THEN rows
    ELSE rows \o [i \in 1..Len(DefaultWallets) |->
                     [id |-> Len(rows) + i, user_id |-> user_id,
                      name |-> DefaultWallets[i].name,
                      purpose |-> DefaultWallets[i].purpose]]

\* fetchone(): a sequence with the row, or the empty sequence for None.
get_wallet(rows, user_id, wallet_id) ==
    SelectSeq(rows, LAMBDA w : w.id = wallet_id /\ w.user_id = user_id)

add_wallet(rows, user_id, name, purpose) ==
    Append(rows, [id |-> Len(rows) + 1, user_id |-> user_id,
                  name |-> name, purpose |-> purpose])

SignedAmount(t) ==
    IF t.amount = NULL THEN NULL
    ELSE IF t.type = "income" THEN t.amount ELSE 0 - t.amount

\* The selected expression of every row: amount, or the CASE expression.
Column(rows, signed) ==
    [i \in 1..Len(rows) |->
        IF signed THEN SignedAmount(rows[i]) ELSE rows[i].amount]

\* The balance query without its wallet_id condition.
get_wallet_balance_any_wallet(rows, user_id, wallet_id) ==
    SqlSum(Column(SelectSeq(rows, LAMBDA t : t.user_id = user_id),
                  TRUE))

get_wallet_balance(rows, user_id, wallet_id) ==
    SqlSum(Column(SelectSeq(rows, LAMBDA t : t.user_id = user_id
                                             /\ t.wallet_id = wallet_id),
                  TRUE))

add_transaction(rows, next, user_id, tx_type, amount, category, note, wallet_id, created_at) ==
    Append(rows, [id |-> next, user_id |-> user_id, type |-> tx_type,
                  amount |-> ToSql(amount), category |-> category,
                  note |-> note, wallet_id |-> wallet_id,
                  created_at |-> created_at])

\* The total without its user_id conditions.
get_balance_any_user(rows, user_id) ==
    SqlSum(Column(SelectSeq(rows, LAMBDA t : t.type = "income"), FALSE))
        - SqlSum(Column(SelectSeq(rows, LAMBDA t : t.type = "expense"),
                        FALSE))

get_balance(rows, user_id) ==
    LET inc == SqlSum(Column(SelectSeq(rows, LAMBDA t : t.user_id = user_id
                                                /\ t.type = "income"),
                             FALSE))
        exp == SqlSum(Column(SelectSeq(rows, LAMBDA t : t.user_id = user_id
                                                /\ t.type = "expense"),
                             FALSE))
    IN  inc - exp

get_transaction(rows, user_id, tx_id) ==
    SelectSeq(rows, LAMBDA t : t.id = tx_id /\ t.user_id = user_id)

delete_transaction(rows, user_id, tx_id) ==
    SelectSeq(rows, LAMBDA t : ~(t.id = tx_id /\ t.user_id = user_id))

update_transaction_amount(rows, user_id, tx_id, amount) ==
    [i \in 1..Len(rows) |->
        IF rows[i].id = tx_id /\ rows[i].user_id = user_id
        THEN [rows[i] EXCEPT !.amount = ToSql(amount)] ELSE rows[i]]

\* The update without its WHERE clause.
update_transaction_category_every_row(rows, user_id, tx_id, category) ==
    [i \in 1..Len(rows) |-> [rows[i] EXCEPT !.category = category]]

update_transaction_category(rows, user_id, tx_id, category) ==
    [i \in 1..Len(rows) |->
        IF rows[i].id = tx_id /\ rows[i].user_id = user_id
        THEN [rows[i] EXCEPT !.category = category] ELSE rows[i]]

update_transaction_note(rows, user_id, tx_id, note) ==
    [i \in 1..Len(rows) |->
        IF rows[i].id = tx_id /\ rows[i].user_id = user_id
        THEN [rows[i] EXCEPT !.note = note] ELSE rows[i]]

create_saving_goal(rows, user_id, name, target_amount) ==
    Append(rows, [id |-> Len(rows) + 1, user_id |-> user_id, name |-> name,
                  target_amount |-> ToSql(target_amount),
                  current_amount |-> 0])

get_saving_goals(rows, user_id) ==
    SelectSeq(rows, LAMBDA g : g.user_id = user_id)

get_goal(rows, goal_id) == SelectSeq(rows, LAMBDA g : g.id = goal_id)

update_goal_amount(rows, goal_id, new_amount) ==
    [i \in 1..Len(rows) |->
        IF rows[i].id = goal_id
        THEN [rows[i] EXCEPT !.current_amount = ToSql(new_amount)]
        ELSE rows[i]]

add_goal_transaction(rows, goal_id, tx_type, amount, note) ==
    Append(rows, [goal_id |-> goal_id, type |-> tx_type,
                  amount |-> ToSql(amount), note |-> note])

\* Instants are counted from the first instant of a month; a month lasts
\* MonthLen instants. first and last are the bounds the month queries use.
MonthLen == 2
MonthFirst(t) == (t \div MonthLen) * MonthLen
MonthLast(t) == MonthFirst(t) + MonthLen

\* The insert without the lookup that precedes it.
set_limit_insert_only(rows, user_id, category, period, limit_amount) ==
    Append(rows, [user_id |-> user_id, category |-> category,
                  period |-> period, limit_amount |-> ToSql(limit_amount)])

set_limit(rows, user_id, category, period, limit_amount) ==
    IF \E i \in 1..Len(rows) : /\ rows[i].user_id = user_id
                               /\ rows[i].category = category
                               /\ rows[i].period = period
    THEN LET first == CHOOSE i \in 1..Len(rows) :
                         /\ rows[i].user_id = user_id
                         /\ rows[i].category = category
                         /\ rows[i].period = period
                         /\ \A j \in 1..(i - 1) :
                               ~(/\ rows[j].user_id = user_id
                                 /\ rows[j].category = category
                                 /\ rows[j].period = period)
         IN  [rows EXCEPT ![first].limit_amount = ToSql(limit_amount)]
    ELSE Append(rows, [user_id |-> user_id, category |-> category,
                       period |-> period,
                       limit_amount |-> ToSql(limit_amount)])

\* fetchone(): a sequence with the row, or the empty sequence for None.
get_limit(rows, user_id, category, period) ==
    SelectSeq(rows, LAMBDA l : /\ l.user_id = user_id
                               /\ l.category = category
                               /\ l.period = period)

\* created_at BETWEEN first AND last: both ends are included.
get_spent_in_month_for_category(rows, user_id, category, today) ==
    SqlSum(Column(SelectSeq(rows,
                            LAMBDA t : /\ t.user_id = user_id
                                       /\ t.type = "expense"
                                       /\ t.category = category
                                       /\ t.created_at >= MonthFirst(today)
                                       /\ t.created_at <= MonthLast(today)),
                  FALSE))

\* date.today() is the date of the server's local clock, while created_at is
\* datetime.utcnow(): the local date is that of the UTC instant or, east of
\* UTC, that of a later instant, which may lie in the next month.
LocalDates(utc) == {utc, utc + 1}

\* add_tx_wallet's test after the insert: limit is not None and spent > limit.
LimitExceeded(tx_rows, limit_rows, user_id, category, today) ==
    LET limit == get_limit(limit_rows, user_id, category, "month")
        spent == get_spent_in_month_for_category(tx_rows, user_id, category,
                                                 today)
    IN  /\ limit # <<>>
        /\ limit[1].limit_amount # NULL
        /\ spent > limit[1].limit_amount

-----------------------------------------------------------------------------
(* Bounds of the model *)

\* Rows ever inserted into table transactions.
MaxTx == 4

\* Rows of table saving_goals, and of its history table.
MaxGoals == 2
MaxGoalTx == 2

\* Rows of table budgets, of table limits, and wallets a user adds.
MaxBudgets == 1
MaxLimits == 4
MaxWallets == 9

-----------------------------------------------------------------------------
(* aiogram: FSMContext, filters and the router *)

NoState == "None"

EmptyDict == [k \in {} |-> 0]

\* dict.update / dict[k] = v / dict.pop(k, None)
Merge(new, old) ==
    [k \in DOMAIN new \cup DOMAIN old |->
        IF k \in DOMAIN new THEN new[k] ELSE old[k]]
Put(d, k, v) == [x \in DOMAIN d \cup {k} |-> IF x = k THEN v ELSE d[x]]
Pop(d, k) == [x \in DOMAIN d \ {k} |-> d[x]]

\* The command texts.
C_start       == <<"/", "s", "t", "a", "r", "t">>
C_help        == <<"/", "h", "e", "l", "p">>
C_add         == <<"/", "a", "d", "d">>
C_budget      == <<"/", "b", "u", "d", "g", "e", "t">>
C_salary      == <<"/", "s", "a", "l", "a", "r", "y">>
C_wallets     == <<"/", "w", "a", "l", "l", "e", "t", "s">>
C_wallets_add == C_wallets \o <<"_", "a", "d", "d">>
C_transfer    == <<"/", "t", "r", "a", "n", "s", "f", "e", "r">>
C_report      == <<"/", "r", "e", "p", "o", "r", "t">>
C_insights    == <<"/", "i", "n", "s", "i", "g", "h", "t", "s">>
C_goals       == <<"/", "g", "o", "a", "l", "s">>
C_goals_add   == C_goals \o <<"_", "a", "d", "d">>
C_transactions == <<"/", "t", "r", "a", "n", "s", "a", "c", "t", "i", "o",
                    "n", "s">>
C_categories  == <<"/", "c", "a", "t", "e", "g", "o", "r", "i", "e", "s">>
C_limit       == <<"/", "l", "i", "m", "i", "t">>
C_export      == <<"/", "e", "x", "p", "o", "r", "t">>
C_export_month  == C_export \o <<"_", "m", "o", "n", "t", "h">>
C_export_wallet == C_export \o <<"_", "w", "a", "l", "l", "e", "t">>
C_backup      == <<"/", "b", "a", "c", "k", "u", "p">>

\* The labels of the reply keyboard of main_menu_kb, shortened.
B_income       == <<"+", "T", "N">>
B_expense      == <<"-", "C", "T">>
B_goals        == <<"*", "M", "T">>
B_report       == <<"*", "B", "C">>
B_budget       == <<"*", "N", "S">>
B_categories   == <<"*", "D", "M">>
B_transactions == <<"*", "G", "D">>
B_wallets      == <<"*", "V">>

\* Command(name): the first token of the text is the command.
IsCommand(text, cmd) == FirstToken(lstrip(text)) = cmd

\* The message handlers in the order the module registers them: the router
\* runs the first one whose filter accepts the message.
MessageHandlers ==
    << [filter |-> "command", cmd |-> C_start, handler |-> "cmd_start"],
       [filter |-> "command", cmd |-> C_help, handler |-> "cmd_help"],
       [filter |-> "text", cmd |-> B_income, handler |-> "add_income_btn"],
       [filter |-> "text", cmd |-> B_expense, handler |-> "add_expense_btn"],
       [filter |-> "text", cmd |-> B_goals, handler |-> "goals_btn"],
       [filter |-> "text", cmd |-> B_report, handler |-> "report_btn"],
       [filter |-> "text", cmd |-> B_budget, handler |-> "budget_btn"],
       [filter |-> "text", cmd |-> B_categories, handler |-> "categories_btn"],
       [filter |-> "text", cmd |-> B_transactions, handler |-> "tx_btn"],
       [filter |-> "text", cmd |-> B_wallets, handler |-> "wallets_btn"],
       [filter |-> "command", cmd |-> C_add, handler |-> "cmd_add"],
       [filter |-> "AddTransactionStates:entering_amount_note", cmd |-> <<>>,
        handler |-> "add_tx_amount_note"],
       [filter |-> "AddTransactionStates:choosing_category", cmd |-> <<>>,
        handler |-> "add_tx_category"],
       [filter |-> "AddTransactionStates:choosing_wallet", cmd |-> <<>>,
        handler |-> "add_tx_wallet"],
       [filter |-> "command", cmd |-> C_budget, handler |-> "cmd_budget"],
       [filter |-> "BudgetStates:entering_income", cmd |-> <<>>,
        handler |-> "budget_income"],
       [filter |-> "command", cmd |-> C_salary, handler |-> "cmd_salary"],
       [filter |-> "SalaryStates:entering_amount", cmd |-> <<>>,
        handler |-> "salary_enter_amount"],
       [filter |-> "command", cmd |-> C_wallets, handler |-> "cmd_wallets"],
       [filter |-> "command", cmd |-> C_wallets_add,
        handler |-> "cmd_wallets_add"],
       [filter |-> "WalletAddStates:entering_name", cmd |-> <<>>,
        handler |-> "wallets_add_enter_name"],
       [filter |-> "command", cmd |-> C_transfer, handler |-> "cmd_transfer"],
       [filter |-> "TransferStates:choosing_from_wallet", cmd |-> <<>>,
        handler |-> "transfer_choose_from"],
       [filter |-> "TransferStates:choosing_to_wallet", cmd |-> <<>>,
        handler |-> "transfer_choose_to"],
       [filter |-> "TransferStates:entering_amount", cmd |-> <<>>,
        handler |-> "transfer_enter_amount"],
       [filter |-> "TransferStates:entering_note", cmd |-> <<>>,
        handler |-> "transfer_enter_note"],
       [filter |-> "command", cmd |-> C_report, handler |-> "cmd_report"],
       [filter |-> "command", cmd |-> C_insights, handler |-> "cmd_insights"],
       [filter |-> "command", cmd |-> C_goals, handler |-> "cmd_goals"],
       [filter |-> "command", cmd |-> C_goals_add,
        handler |-> "cmd_goals_add"],
       [filter |-> "CreateGoalStates:entering_name", cmd |-> <<>>,
        handler |-> "goal_enter_name"],
       [filter |-> "CreateGoalStates:entering_target", cmd |-> <<>>,
        handler |-> "goal_enter_target"],
       [filter |-> "GoalMoneyStates:entering_amount", cmd |-> <<>>,
        handler |-> "goal_money_amount"],
       [filter |-> "GoalMoneyStates:entering_note", cmd |-> <<>>,
        handler |-> "goal_money_note"],
       [filter |-> "command", cmd |-> C_transactions,
        handler |-> "cmd_transactions"],
       [filter |-> "EditTransactionStates:editing_field", cmd |-> <<>>,
        handler |-> "edit_tx_field_value"],
       [filter |-> "command", cmd |-> C_categories,
        handler |-> "cmd_categories"],
       [filter |-> "CategoryStates:entering_name", cmd |-> <<>>,
        handler |-> "cat_enter_name"],
       [filter |-> "command", cmd |-> C_limit, handler |-> "cmd_limit"],
       [filter |-> "LimitStates:choosing_category", cmd |-> <<>>,
        handler |-> "limit_choose_category"],
       [filter |-> "LimitStates:entering_amount", cmd |-> <<>>,
        handler |-> "limit_enter_amount"],
       [filter |-> "command", cmd |-> C_export, handler |-> "cmd_export"],
       [filter |-> "command", cmd |-> C_export_month,
        handler |-> "cmd_export_month"],
       [filter |-> "ExportMonthStates:entering_period", cmd |-> <<>>,
        handler |-> "export_month_enter_period"],
       [filter |-> "command", cmd |-> C_export_wallet,
        handler |-> "cmd_export_wallet"],
       [filter |-> "command", cmd |-> C_backup, handler |-> "cmd_backup"],
       [filter |-> "any", cmd |-> <<>>, handler |-> "fallback_handler"] >>

Accepts(h, state, text) ==
    CASE h.filter = "command" -> IsCommand(text, h.cmd)
      [] h.filter = "text"    -> text = h.cmd
      [] h.filter = "any"     -> TRUE
      [] OTHER                -> state = h.filter

\* The handler the router runs for a message of a user in `state`: the first
\* registered handler, from position i on, whose filter accepts the message.
RECURSIVE RouteFrom(_, _, _)
RouteFrom(i, state, text) ==
    IF Accepts(MessageHandlers[i], state, text)
    THEN MessageHandlers[i].handler
    ELSE RouteFrom(i + 1, state, text)

Route(state, text) == RouteFrom(1, state, text)

\* The states of the StatesGroup classes, and the state of no flow.
States ==
    {NoState,
     "AddTransactionStates:choosing_type",
     "AddTransactionStates:entering_amount_note",
     "AddTransactionStates:choosing_category",
     "AddTransactionStates:choosing_wallet",
     "BudgetStates:entering_income",
     "SalaryStates:entering_amount",
     "WalletAddStates:entering_name",
     "TransferStates:choosing_from_wallet",
     "TransferStates:choosing_to_wallet",
     "TransferStates:entering_amount",
     "TransferStates:entering_note",
     "CreateGoalStates:entering_name",
     "CreateGoalStates:entering_target",
     "GoalMoneyStates:entering_amount",
     "GoalMoneyStates:entering_note",
     "EditTransactionStates:choosing_field",
     "EditTransactionStates:editing_field",
     "CategoryStates:choosing_type",
     "CategoryStates:entering_name",
     "LimitStates:choosing_category",
     "LimitStates:entering_amount",
     "ExportMonthStates:entering_period"}

\* The texts the users of this development type, besides the commands and
\* the buttons: amounts, names, notes, a period.
T_5     == <<"5">>
T_10    == <<"1", "0">>
T_nan   == <<"n", "a", "n">>
T_E     == <<"E">>
T_L     == <<"L">>
T_dash  == <<"-">>
T_blank == <<" ">>
T_0     == <<"0">>
T_e     == <<"e">>
T_month == <<"3", "-", "2", "0", "2", "5">>
T_5_L   == <<"5", " ", "L">>

Commands ==
    {C_start, C_help, C_add, C_budget, C_salary, C_wallets, C_wallets_add,
     C_transfer, C_report, C_insights, C_goals, C_goals_add, C_transactions,
     C_categories, C_limit, C_export, C_export_month, C_export_wallet,
     C_backup}

Buttons ==
    {B_income, B_expense, B_goals, B_report, B_budget, B_categories,
     B_transactions, B_wallets}

Texts ==
    Commands \cup Buttons
        \cup {T_5, T_10, T_nan, T_E, T_L, T_dash, T_blank, T_month, T_0,
              T_e, T_5_L}

\* Route, worked out once for every state and text.
RouteTable == [state \in States |-> [text \in Texts |-> Route(state, text)]]

\* The update is a message with this text, and the router hands it to handler.
Routed(u, text, handler) ==
    /\ RouteTable[fsm_state[u]][text] = handler
    /\ message' = text

\* A callback query carries no text: its handlers leave message empty.

\* What a handler answers: who is answered, by which handler, and whether the
\* answer is a prompt for the next step, a validation error, a confirmation,
\* an abort, plain information, or nothing because the handler raised.
Answer(u, handler, kind) ==
    /\ reply' = [user |-> u, handler |-> handler, kind |-> kind]
    /\ UNCHANGED <<calc, tasks>>

set_state(u, s) == fsm_state' = [fsm_state EXCEPT ![u] = s]
update_data(u, kv) == fsm_data' = [fsm_data EXCEPT ![u] = Merge(kv, @)]
clear(u) ==
    /\ fsm_state' = [fsm_state EXCEPT ![u] = NoState]
    /\ fsm_data' = [fsm_data EXCEPT ![u] = EmptyDict]

\* The tables after db.get_or_create_user(u): the user row, the default
\* categories and the default wallets, each created when missing.
UserEnsured(u) ==
    [users      |-> users \cup {u},
     categories |-> ensure_default_categories(categories, next_cat_id, u),
     wallets    |-> ensure_default_wallets(wallets, u)]

get_or_create_user(u) ==
    /\ users' = UserEnsured(u).users
    /\ categories' = UserEnsured(u).categories.rows
    /\ next_cat_id' = UserEnsured(u).categories.next
    /\ wallets' = UserEnsured(u).wallets

\* The lookup without the user: the wallets of every user that bear the name.
WalletNamedAnyUser(rows, user_id, name) ==
    SelectSeq(rows, LAMBDA w : lower(w.name) = lower(name))

\* The wallets of the user whose name matches, ignoring case, in the order
\* get_wallets lists them; the handlers take the first.
WalletNamed(rows, user_id, name) ==
    SelectSeq(get_wallets(rows, user_id),
              LAMBDA w : lower(w.name) = lower(name))

\* The updates that may be in the course of being handled at one time.
MaxTasks == 2

TaskIds == 1..MaxTasks

\* A coroutine slot with no handler in it.
IdleTask ==
    [pc |-> "idle", user |-> 0, handler |-> "", text |-> <<>>,
     ctx |-> EmptyDict, data |-> EmptyDict, tx_id |-> 0, kind |-> ""]

\* The program after construction: empty tables, no session, no update yet.
Started ==
    /\ users = {}
    /\ wallets = <<>>
    /\ transactions = <<>>
    /\ next_tx_id = 1
    /\ categories = <<>>
    /\ next_cat_id = 1
    /\ limits = <<>>
    /\ saving_goals = <<>>
    /\ saving_goal_transactions = <<>>
    /\ budgets = <<>>
    /\ fsm_state = [u \in Users |-> NoState]
    /\ fsm_data = [u \in Users |-> EmptyDict]
    /\ user_goal_action_context = EmptyDict
    /\ user_edit_tx_context = EmptyDict
    /\ now = 0
    /\ reply = [user |-> 0, handler |-> "", kind |-> ""]
    /\ message = <<>>
    /\ tasks = [t \in TaskIds |-> IdleTask]

Init == Started /\ calc = [op |-> ""]

-----------------------------------------------------------------------------
(* /start and the AddTransaction flow *)

\* /start without state.clear().
cmd_start_keeps_session(u, text) ==
    /\ Routed(u, text, "cmd_start")
    /\ get_or_create_user(u)
    /\ Answer(u, "cmd_start", "info")
    /\ UNCHANGED <<transactions, next_tx_id, limits, saving_goals,
                   saving_goal_transactions, budgets, fsm_state, fsm_data,
                   user_goal_action_context, user_edit_tx_context, now>>

cmd_start(u, text) ==
    /\ Routed(u, text, "cmd_start")
    /\ get_or_create_user(u)
    /\ clear(u)
    /\ Answer(u, "cmd_start", "info")
    /\ UNCHANGED <<transactions, next_tx_id, limits, saving_goals,
                   saving_goal_transactions, budgets,
                   user_goal_action_context, user_edit_tx_context, now>>

cmd_add(u, text) ==
    /\ Routed(u, text, "cmd_add")
    /\ get_or_create_user(u)
    /\ set_state(u, "AddTransactionStates:choosing_type")
    /\ Answer(u, "cmd_add", "prompt")
    /\ UNCHANGED <<transactions, next_tx_id, limits, saving_goals,
                   saving_goal_transactions, budgets, fsm_data,
                   user_goal_action_context, user_edit_tx_context, now>>

cb_add_tx_type(u, tx_type) ==
    /\ message' = <<>>
    /\ update_data(u, [tx_type |-> tx_type])
    /\ set_state(u, "AddTransactionStates:entering_amount_note")
    /\ Answer(u, "cb_add_tx_type", "prompt")
    /\ UNCHANGED <<db_vars, user_goal_action_context, user_edit_tx_context, now>>

start_add_transaction(u, tx_type, handler) ==
    /\ get_or_create_user(u)
    /\ set_state(u, "AddTransactionStates:entering_amount_note")
    /\ update_data(u, [tx_type |-> tx_type])
    /\ Answer(u, handler, "prompt")
    /\ UNCHANGED <<transactions, next_tx_id, limits, saving_goals,
                   saving_goal_transactions, budgets,
                   user_goal_action_context, user_edit_tx_context, now>>

add_income_btn(u, text) ==
    /\ Routed(u, text, "add_income_btn")
    /\ start_add_transaction(u, "income", "add_income_btn")

add_expense_btn(u, text) ==
    /\ Routed(u, text, "add_expense_btn")
    /\ start_add_transaction(u, "expense", "add_expense_btn")

add_tx_amount_note(u, text) ==
    /\ Routed(u, text, "add_tx_amount_note")
    /\ LET parsed == extract_amount_and_note(text)
       IN  IF ~parsed.ok \/ FLe(parsed.v, 0)
           THEN /\ Answer(u, "add_tx_amount_note", "error")
                /\ UNCHANGED <<db_vars, fsm_state, fsm_data>>
           ELSE /\ update_data(u, [amount |-> parsed.v, note |-> parsed.note])
                /\ get_or_create_user(u)
                /\ set_state(u, "AddTransactionStates:choosing_category")
                /\ Answer(u, "add_tx_amount_note", "prompt")
                /\ UNCHANGED <<transactions, next_tx_id, limits, saving_goals,
                               saving_goal_transactions, budgets>>
    /\ UNCHANGED <<user_goal_action_context, user_edit_tx_context, now>>

add_tx_category(u, text) ==
    /\ Routed(u, text, "add_tx_category")
    /\ LET category == strip(text)
       IN  IF category = <<>>
           THEN /\ Answer(u, "add_tx_category", "error")
                /\ UNCHANGED <<db_vars, fsm_state, fsm_data>>
           ELSE /\ update_data(u, [category |-> category])
                /\ get_or_create_user(u)
                /\ set_state(u, "AddTransactionStates:choosing_wallet")
                /\ Answer(u, "add_tx_category", "prompt")
                /\ UNCHANGED <<transactions, next_tx_id, limits, saving_goals,
                               saving_goal_transactions, budgets>>
    /\ UNCHANGED <<user_goal_action_context, user_edit_tx_context, now>>

add_tx_wallet(u, text) ==
    /\ Routed(u, text, "add_tx_wallet")
    /\ next_tx_id <= MaxTx
    /\ LET wallet_name == strip(text)
           data        == fsm_data[u]
           chosen      == WalletNamed(UserEnsured(u).wallets, u, wallet_name)
       IN  IF wallet_name = <<>>
           THEN /\ Answer(u, "add_tx_wallet", "error")
                /\ UNCHANGED <<db_vars, fsm_state, fsm_data>>
           ELSE IF chosen = <<>>
           THEN /\ get_or_create_user(u)
                /\ Answer(u, "add_tx_wallet", "error")
                /\ UNCHANGED <<transactions, next_tx_id, limits, saving_goals,
                               saving_goal_transactions, budgets, fsm_state,
                               fsm_data>>
           ELSE /\ get_or_create_user(u)
                /\ transactions' =
                      add_transaction(transactions, next_tx_id, u,
                                      data.tx_type, data.amount,
                                      data.category, data.note, chosen[1].id,
                                      now)
                /\ next_tx_id' = next_tx_id + 1
                /\ clear(u)
                /\ \E today \in LocalDates(now) :
                      Answer(u, "add_tx_wallet",
                             IF data.tx_type = "expense"
                                /\ LimitExceeded(transactions', limits, u,
                                                 data.category, today)
                             THEN "ok_warn" ELSE "ok")
                /\ UNCHANGED <<limits, saving_goals,
                               saving_goal_transactions, budgets>>
    /\ UNCHANGED <<user_goal_action_context, user_edit_tx_context, now>>

-----------------------------------------------------------------------------
(* /budget and /salary: the 4-2-2-2 rule *)

\* total * 0.4 and total * 0.2 in floats. The totals the handlers are given
\* are 5 and 10, for which the float products are these integers exactly
\* (TimesExactOnInputs); Allocation computes the products of any total.
Times04(total) == IF total = NaN THEN NaN ELSE (4 * total) \div 10
Times02(total) == IF total = NaN THEN NaN ELSE (2 * total) \div 10

save_budget(rows, user_id, total_income, essential, long_term, invest, personal) ==
    Append(rows, [user_id |-> user_id, total_income |-> ToSql(total_income),
                  essential |-> ToSql(essential),
                  long_term |-> ToSql(long_term), invest |-> ToSql(invest),
                  personal |-> ToSql(personal)])

cmd_budget_body(u, handler) ==
    /\ set_state(u, "BudgetStates:entering_income")
    /\ Answer(u, handler, "prompt")
    /\ UNCHANGED <<db_vars, fsm_data, user_goal_action_context,
                   user_edit_tx_context, now>>

cmd_budget(u, text) ==
    /\ Routed(u, text, "cmd_budget")
    /\ cmd_budget_body(u, "cmd_budget")

budget_btn(u, text) ==
    /\ Routed(u, text, "budget_btn")
    /\ cmd_budget_body(u, "budget_btn")

\* The step with the snapshot saved at once, before any button is pressed.
budget_income_saving(u, text) ==
    /\ Routed(u, text, "budget_income")
    /\ LET parsed == extract_amount_and_note(text)
       IN  IF ~parsed.ok \/ FLe(parsed.v, 0)
           THEN /\ Answer(u, "budget_income", "error")
                /\ UNCHANGED <<db_vars, fsm_state, fsm_data>>
           ELSE /\ clear(u)
                /\ get_or_create_user(u)
                /\ budgets' = save_budget(budgets, u, parsed.v,
                                          Times04(parsed.v), Times02(parsed.v),
                                          Times02(parsed.v), Times02(parsed.v))
                /\ Answer(u, "budget_income", "ok")
                /\ UNCHANGED <<transactions, next_tx_id, limits, saving_goals,
                               saving_goal_transactions>>
    /\ UNCHANGED <<user_goal_action_context, user_edit_tx_context, now>>

budget_income(u, text) ==
    /\ Routed(u, text, "budget_income")
    /\ LET parsed == extract_amount_and_note(text)
       IN  IF ~parsed.ok \/ FLe(parsed.v, 0)
           THEN /\ Answer(u, "budget_income", "error")
                /\ UNCHANGED <<fsm_state, fsm_data>>
           ELSE /\ clear(u)
                /\ Answer(u, "budget_income", "ok")
    /\ UNCHANGED <<db_vars, user_goal_action_context, user_edit_tx_context,
                   now>>

\* The button carries the total: callback_data "budget_note|<total>".
cb_budget_note(u, total) ==
    /\ message' = <<>>
    /\ Len(budgets) < MaxBudgets
    /\ get_or_create_user(u)
    /\ budgets' = save_budget(budgets, u, total, Times04(total),
                              Times02(total), Times02(total), Times02(total))
    /\ Answer(u, "cb_budget_note", "ok")
    /\ UNCHANGED <<transactions, next_tx_id, limits, saving_goals,
                   saving_goal_transactions, fsm_state, fsm_data,
                   user_goal_action_context, user_edit_tx_context, now>>

G_long_term == <<"L", "4">>
G_invest    == <<"I", "4">>

cb_budget_goals(u, total) ==
    /\ message' = <<>>
    /\ Len(saving_goals) + 2 <= MaxGoals
    /\ get_or_create_user(u)
    /\ saving_goals' =
          create_saving_goal(
              create_saving_goal(saving_goals, u, G_long_term,
                                 Times02(total)),
              u, G_invest, Times02(total))
    /\ Answer(u, "cb_budget_goals", "ok")
    /\ UNCHANGED <<transactions, next_tx_id, limits, budgets,
                   saving_goal_transactions, fsm_state, fsm_data,
                   user_goal_action_context, user_edit_tx_context, now>>

cmd_salary(u, text) ==
    /\ Routed(u, text, "cmd_salary")
    /\ get_or_create_user(u)
    /\ set_state(u, "SalaryStates:entering_amount")
    /\ Answer(u, "cmd_salary", "prompt")
    /\ UNCHANGED <<transactions, next_tx_id, limits, saving_goals,
                   saving_goal_transactions, budgets, fsm_data,
                   user_goal_action_context, user_edit_tx_context, now>>

\* purpose_map = {w["purpose"]: w for w in wallets}: the last wallet of each
\* purpose wins; the empty sequence stands for a missing key.
PurposeWallet(rows, user_id, purpose) ==
    LET ws == SelectSeq(get_wallets(rows, user_id),
                        LAMBDA w : w.purpose = purpose)
    IN  IF ws = <<>> THEN <<>> ELSE <<ws[Len(ws)]>>

\* The four add_transaction calls of salary_enter_amount, one per wallet of
\* the 4-2-2-2 rule, each with its own commit.
salary_transactions(rows, next, user_id, total, wallet_ids, created_at) ==
    add_transaction(
        add_transaction(
            add_transaction(
                add_transaction(rows, next, user_id, "income",
                                Times04(total), SalaryCategory(1), <<>>,
                                wallet_ids[1], created_at),
                next + 1, user_id, "income", Times02(total),
                SalaryCategory(2), <<>>, wallet_ids[2], created_at),
            next + 2, user_id, "income", Times02(total), SalaryCategory(3),
            <<>>, wallet_ids[3], created_at),
        next + 3, user_id, "income", Times02(total), SalaryCategory(4), <<>>,
        wallet_ids[4], created_at)

salary_enter_amount(u, text) ==
    /\ Routed(u, text, "salary_enter_amount")
    /\ next_tx_id + 3 <= MaxTx
    /\ LET parsed == extract_amount_and_note(text)
           pw     == [i \in 1..4 |->
                         PurposeWallet(UserEnsured(u).wallets, u,
                                       DefaultWallets[i].purpose)]
       IN  IF ~parsed.ok \/ FLe(parsed.v, 0)
           THEN /\ Answer(u, "salary_enter_amount", "error")
                /\ UNCHANGED <<db_vars, fsm_state, fsm_data>>
           ELSE /\ clear(u)
                /\ get_or_create_user(u)
                /\ IF \E i \in 1..4 : pw[i] = <<>>
                   THEN /\ Answer(u, "salary_enter_amount", "abort")
                        /\ UNCHANGED <<transactions, next_tx_id>>
                   ELSE /\ transactions' =
                              salary_transactions(
                                  transactions, next_tx_id, u, parsed.v,
                                  [i \in 1..4 |-> pw[i][1].id], now)
                        /\ next_tx_id' = next_tx_id + 4
                        /\ Answer(u, "salary_enter_amount", "ok")
                /\ UNCHANGED <<limits, saving_goals,
                               saving_goal_transactions, budgets>>
    /\ UNCHANGED <<user_goal_action_context, user_edit_tx_context, now>>

-----------------------------------------------------------------------------
(* /wallets_add and /transfer *)

cmd_wallets_add(u, text) ==
    /\ Routed(u, text, "cmd_wallets_add")
    /\ get_or_create_user(u)
    /\ set_state(u, "WalletAddStates:entering_name")
    /\ Answer(u, "cmd_wallets_add", "prompt")
    /\ UNCHANGED <<transactions, next_tx_id, limits, saving_goals,
                   saving_goal_transactions, budgets, fsm_data,
                   user_goal_action_context, user_edit_tx_context, now>>

wallets_add_enter_name(u, text) ==
    /\ Routed(u, text, "wallets_add_enter_name")
    /\ Len(wallets) < MaxWallets
    /\ LET name == strip(text)
       IN  IF name = <<>>
           THEN /\ Answer(u, "wallets_add_enter_name", "error")
                /\ UNCHANGED <<db_vars, fsm_state, fsm_data>>
           ELSE /\ users' = UserEnsured(u).users
                /\ categories' = UserEnsured(u).categories.rows
                /\ next_cat_id' = UserEnsured(u).categories.next
                /\ wallets' = add_wallet(UserEnsured(u).wallets, u, name, "")
                /\ clear(u)
                /\ Answer(u, "wallets_add_enter_name", "ok")
                /\ UNCHANGED <<transactions, next_tx_id, limits, saving_goals,
                               saving_goal_transactions, budgets>>
    /\ UNCHANGED <<user_goal_action_context, user_edit_tx_context, now>>

cmd_transfer(u, text) ==
    /\ Routed(u, text, "cmd_transfer")
    /\ get_or_create_user(u)
    /\ IF Len(get_wallets(UserEnsured(u).wallets, u)) < 2
       THEN /\ Answer(u, "cmd_transfer", "abort")
            /\ UNCHANGED fsm_state
       ELSE /\ set_state(u, "TransferStates:choosing_from_wallet")
            /\ Answer(u, "cmd_transfer", "prompt")
    /\ UNCHANGED <<transactions, next_tx_id, limits, saving_goals,
                   saving_goal_transactions, budgets, fsm_data,
                   user_goal_action_context, user_edit_tx_context, now>>

transfer_choose_from(u, text) ==
    /\ Routed(u, text, "transfer_choose_from")
    /\ get_or_create_user(u)
    /\ LET from_wallet == WalletNamed(UserEnsured(u).wallets, u, strip(text))
       IN  IF from_wallet = <<>>
           THEN /\ Answer(u, "transfer_choose_from", "error")
                /\ UNCHANGED <<fsm_state, fsm_data>>
           ELSE /\ update_data(u, [from_wallet_id |-> from_wallet[1].id])
                /\ set_state(u, "TransferStates:choosing_to_wallet")
                /\ Answer(u, "transfer_choose_from", "prompt")
    /\ UNCHANGED <<transactions, next_tx_id, limits, saving_goals,
                   saving_goal_transactions, budgets,
                   user_goal_action_context, user_edit_tx_context, now>>

\* The destination step without the comparison with the source.
transfer_choose_to_any_wallet(u, text) ==
    /\ Routed(u, text, "transfer_choose_to")
    /\ get_or_create_user(u)
    /\ LET to_wallet == WalletNamed(UserEnsured(u).wallets, u, strip(text))
       IN  IF to_wallet = <<>>
           THEN /\ Answer(u, "transfer_choose_to", "error")
                /\ UNCHANGED <<fsm_state, fsm_data>>
           ELSE /\ update_data(u, [to_wallet_id |-> to_wallet[1].id])
                /\ set_state(u, "TransferStates:entering_amount")
                /\ Answer(u, "transfer_choose_to", "prompt")
    /\ UNCHANGED <<transactions, next_tx_id, limits, saving_goals,
                   saving_goal_transactions, budgets,
                   user_goal_action_context, user_edit_tx_context, now>>

transfer_choose_to(u, text) ==
    /\ Routed(u, text, "transfer_choose_to")
    /\ get_or_create_user(u)
    /\ LET to_wallet == WalletNamed(UserEnsured(u).wallets, u, strip(text))
       IN  IF to_wallet = <<>>
              \/ to_wallet[1].id = fsm_data[u].from_wallet_id
           THEN /\ Answer(u, "transfer_choose_to", "error")
                /\ UNCHANGED <<fsm_state, fsm_data>>
           ELSE /\ update_data(u, [to_wallet_id |-> to_wallet[1].id])
                /\ set_state(u, "TransferStates:entering_amount")
                /\ Answer(u, "transfer_choose_to", "prompt")
    /\ UNCHANGED <<transactions, next_tx_id, limits, saving_goals,
                   saving_goal_transactions, budgets,
                   user_goal_action_context, user_edit_tx_context, now>>

transfer_enter_amount(u, text) ==
    /\ Routed(u, text, "transfer_enter_amount")
    /\ LET parsed == extract_amount_and_note(text)
       IN  IF ~parsed.ok \/ FLe(parsed.v, 0)
           THEN /\ Answer(u, "transfer_enter_amount", "error")
                /\ UNCHANGED <<fsm_state, fsm_data>>
           ELSE /\ update_data(u, [amount |-> parsed.v])
                /\ set_state(u, "TransferStates:entering_note")
                /\ Answer(u, "transfer_enter_amount", "prompt")
    /\ UNCHANGED <<db_vars, user_goal_action_context, user_edit_tx_context,
                   now>>

\* The two legs are two add_transaction calls, each with its own commit.
\* store_fails: the second INSERT raises (sqlite3.OperationalError: the disk
\* is full, the database is locked); the handler ends there, before
\* state.clear().
transfer_enter_note(u, text, store_fails) ==
    /\ Routed(u, text, "transfer_enter_note")
    /\ next_tx_id + 1 <= MaxTx
    /\ LET data        == fsm_data[u]
           note0       == strip(text)
           note        == IF note0 = <<"-">> THEN <<>> ELSE note0
           ws          == UserEnsured(u).wallets
           from_wallet == get_wallet(ws, u, data.from_wallet_id)
           to_wallet   == get_wallet(ws, u, data.to_wallet_id)
           leg1        == add_transaction(
                              transactions, next_tx_id, u, "expense",
                              data.amount,
                              TransferToCategory(to_wallet[1].name), note,
                              data.from_wallet_id, now)
           leg2        == add_transaction(
                              leg1, next_tx_id + 1, u, "income", data.amount,
                              TransferFromCategory(from_wallet[1].name), note,
                              data.to_wallet_id, now)
       IN  /\ get_or_create_user(u)
           /\ IF from_wallet = <<>> \/ to_wallet = <<>>
              THEN /\ Answer(u, "transfer_enter_note", "exception")
                   /\ UNCHANGED <<transactions, next_tx_id, fsm_state,
                                  fsm_data>>
              ELSE IF store_fails
              THEN /\ transactions' = leg1
                   /\ next_tx_id' = next_tx_id + 1
                   /\ Answer(u, "transfer_enter_note", "exception")
                   /\ UNCHANGED <<fsm_state, fsm_data>>
              ELSE /\ transactions' = leg2
                   /\ next_tx_id' = next_tx_id + 2
                   /\ clear(u)
                   /\ Answer(u, "transfer_enter_note", "ok")
    /\ UNCHANGED <<limits, saving_goals, saving_goal_transactions, budgets,
                   user_goal_action_context, user_edit_tx_context, now>>

-----------------------------------------------------------------------------
(* /goals, /goals_add and the goal deposit / withdraw flow *)

\* The listing formats current_amount and compares target_amount with 0:
\* both raise TypeError on None, after the session was cleared.
cmd_goals_body(u, handler) ==
    /\ clear(u)
    /\ get_or_create_user(u)
    /\ Answer(u, handler,
              IF \E i \in 1..Len(saving_goals) :
                    /\ saving_goals[i].user_id = u
                    /\ NULL \in {saving_goals[i].current_amount,
                                 saving_goals[i].target_amount}
              THEN "exception" ELSE "info")
    /\ UNCHANGED <<transactions, next_tx_id, limits, saving_goals,
                   saving_goal_transactions, budgets,
                   user_goal_action_context, user_edit_tx_context, now>>

cmd_goals(u, text) ==
    /\ Routed(u, text, "cmd_goals")
    /\ cmd_goals_body(u, "cmd_goals")

goals_btn(u, text) ==
    /\ Routed(u, text, "goals_btn")
    /\ cmd_goals_body(u, "goals_btn")

cmd_goals_add(u, text) ==
    /\ Routed(u, text, "cmd_goals_add")
    /\ set_state(u, "CreateGoalStates:entering_name")
    /\ Answer(u, "cmd_goals_add", "prompt")
    /\ UNCHANGED <<db_vars, fsm_data, user_goal_action_context,
                   user_edit_tx_context, now>>

cb_goal_create_new(u) ==
    /\ message' = <<>>
    /\ set_state(u, "CreateGoalStates:entering_name")
    /\ Answer(u, "cb_goal_create_new", "prompt")
    /\ UNCHANGED <<db_vars, fsm_data, user_goal_action_context,
                   user_edit_tx_context, now>>

goal_enter_name(u, text) ==
    /\ Routed(u, text, "goal_enter_name")
    /\ LET name == strip(text)
       IN  IF name = <<>>
           THEN /\ Answer(u, "goal_enter_name", "error")
                /\ UNCHANGED <<fsm_state, fsm_data>>
           ELSE /\ update_data(u, [goal_name |-> name])
                /\ set_state(u, "CreateGoalStates:entering_target")
                /\ Answer(u, "goal_enter_name", "prompt")
    /\ UNCHANGED <<db_vars, user_goal_action_context, user_edit_tx_context,
                   now>>

goal_enter_target(u, text) ==
    /\ Routed(u, text, "goal_enter_target")
    /\ Len(saving_goals) < MaxGoals
    /\ LET parsed == extract_amount_and_note(text)
       IN  IF ~parsed.ok \/ FLe(parsed.v, 0)
           THEN /\ Answer(u, "goal_enter_target", "error")
                /\ UNCHANGED <<db_vars, fsm_state, fsm_data>>
           ELSE /\ get_or_create_user(u)
                /\ saving_goals' =
                      create_saving_goal(saving_goals, u,
                                         fsm_data[u].goal_name, parsed.v)
                /\ clear(u)
                /\ Answer(u, "goal_enter_target", "ok")
                /\ UNCHANGED <<transactions, next_tx_id, limits,
                               saving_goal_transactions, budgets>>
    /\ UNCHANGED <<user_goal_action_context, user_edit_tx_context, now>>

\* cb_goal_deposit and cb_goal_withdraw: callback_data "goal_deposit|<id>"
\* and "goal_withdraw|<id>".
cb_goal_action(u, goal_id, action, handler) ==
    /\ message' = <<>>
    /\ IF get_goal(saving_goals, goal_id) = <<>>
       THEN /\ Answer(u, handler, "abort")
            /\ UNCHANGED <<fsm_state, user_goal_action_context>>
       ELSE /\ user_goal_action_context' =
                   Put(user_goal_action_context, u,
                       [goal_id |-> goal_id, action |-> action])
            /\ set_state(u, "GoalMoneyStates:entering_amount")
            /\ Answer(u, handler, "prompt")
    /\ UNCHANGED <<db_vars, fsm_data, user_edit_tx_context, now>>

cb_goal_deposit(u, goal_id) ==
    cb_goal_action(u, goal_id, "deposit", "cb_goal_deposit")

cb_goal_withdraw(u, goal_id) ==
    cb_goal_action(u, goal_id, "withdraw", "cb_goal_withdraw")

goal_money_amount(u, text) ==
    /\ Routed(u, text, "goal_money_amount")
    /\ IF u \notin DOMAIN user_goal_action_context
       THEN /\ clear(u)
            /\ Answer(u, "goal_money_amount", "abort")
       ELSE LET parsed == extract_amount_and_note(text)
            IN  IF ~parsed.ok \/ FLe(parsed.v, 0)
                THEN /\ Answer(u, "goal_money_amount", "error")
                     /\ UNCHANGED <<fsm_state, fsm_data>>
                ELSE /\ update_data(u, [amount |-> parsed.v])
                     /\ set_state(u, "GoalMoneyStates:entering_note")
                     /\ Answer(u, "goal_money_amount", "prompt")
    /\ UNCHANGED <<db_vars, user_goal_action_context, user_edit_tx_context,
                   now>>

\* goal["current_amount"] is None once a NaN was stored: None + amount and
\* amount > None raise TypeError. The answer formats goal["target_amount"]
\* after the two writes and before state.clear(): on None the format raises
\* TypeError, the writes are committed, the session and the context stay.
goal_money_note(u, text) ==
    /\ Routed(u, text, "goal_money_note")
    /\ Len(saving_goal_transactions) < MaxGoalTx
    /\ IF u \notin DOMAIN user_goal_action_context
       THEN /\ clear(u)
            /\ Answer(u, "goal_money_note", "abort")
            /\ UNCHANGED <<saving_goals, saving_goal_transactions,
                           user_goal_action_context>>
       ELSE LET ctx     == user_goal_action_context[u]
                amount  == fsm_data[u].amount
                note0   == strip(text)
                note    == IF note0 = <<"-">> THEN <<>> ELSE note0
                goal    == get_goal(saving_goals, ctx.goal_id)
                current == goal[1].current_amount
                answer_ok ==
                    IF goal[1].target_amount = NULL
                    THEN /\ Answer(u, "goal_money_note", "exception")
                         /\ UNCHANGED <<user_goal_action_context, fsm_state,
                                        fsm_data>>
                    ELSE /\ clear(u)
                         /\ user_goal_action_context' =
                               Pop(user_goal_action_context, u)
                         /\ Answer(u, "goal_money_note", "ok")
            IN  IF goal = <<>>
                THEN /\ clear(u)
                     /\ Answer(u, "goal_money_note", "abort")
                     /\ UNCHANGED <<saving_goals, saving_goal_transactions,
                                    user_goal_action_context>>
                ELSE IF current = NULL
                THEN /\ Answer(u, "goal_money_note", "exception")
                     /\ UNCHANGED <<saving_goals, saving_goal_transactions,
                                    user_goal_action_context, fsm_state,
                                    fsm_data>>
                ELSE IF ctx.action = "deposit"
                THEN /\ saving_goals' =
                           update_goal_amount(saving_goals, goal[1].id,
                                              FAdd(current, amount))
                     /\ saving_goal_transactions' =
                           add_goal_transaction(saving_goal_transactions,
                                                goal[1].id, "deposit",
                                                amount, note)
                     /\ answer_ok
                ELSE IF FGt(amount, current)
                THEN /\ Answer(u, "goal_money_note", "error")
                     /\ UNCHANGED <<saving_goals, saving_goal_transactions,
                                    user_goal_action_context, fsm_state,
                                    fsm_data>>
                ELSE /\ saving_goals' =
                           update_goal_amount(saving_goals, goal[1].id,
                                              FSub(current, amount))
                     /\ saving_goal_transactions' =
                           add_goal_transaction(saving_goal_transactions,
                                                goal[1].id, "withdraw",
                                                amount, note)
                     /\ answer_ok
    /\ UNCHANGED <<users, wallets, transactions, next_tx_id, categories,
                   next_cat_id, limits, budgets, user_edit_tx_context, now>>

-----------------------------------------------------------------------------
(* /transactions: delete and edit *)

\* The deletion by the id alone, whoever the owner of the row is.
cb_tx_delete_any_owner(u, tx_id) ==
    /\ message' = <<>>
    /\ get_or_create_user(u)
    /\ IF \A i \in 1..Len(transactions) : transactions[i].id # tx_id
       THEN /\ Answer(u, "cb_tx_delete", "abort")
            /\ UNCHANGED transactions
       ELSE /\ transactions' = SelectSeq(transactions,
                                         LAMBDA t : t.id # tx_id)
            /\ Answer(u, "cb_tx_delete", "ok")
    /\ UNCHANGED <<next_tx_id, limits, saving_goals,
                   saving_goal_transactions, budgets, fsm_state, fsm_data,
                   user_goal_action_context, user_edit_tx_context, now>>

cb_tx_delete(u, tx_id) ==
    /\ message' = <<>>
    /\ get_or_create_user(u)
    /\ IF get_transaction(transactions, u, tx_id) = <<>>
       THEN /\ Answer(u, "cb_tx_delete", "abort")
            /\ UNCHANGED transactions
       ELSE /\ transactions' = delete_transaction(transactions, u, tx_id)
            /\ Answer(u, "cb_tx_delete", "ok")
    /\ UNCHANGED <<next_tx_id, limits, saving_goals,
                   saving_goal_transactions, budgets, fsm_state, fsm_data,
                   user_goal_action_context, user_edit_tx_context, now>>

cb_tx_edit(u, tx_id) ==
    /\ message' = <<>>
    /\ get_or_create_user(u)
    /\ IF get_transaction(transactions, u, tx_id) = <<>>
       THEN /\ Answer(u, "cb_tx_edit", "abort")
            /\ UNCHANGED <<fsm_state, user_edit_tx_context>>
       ELSE /\ user_edit_tx_context' =
                   Put(user_edit_tx_context, u, [tx_id |-> tx_id])
            /\ set_state(u, "EditTransactionStates:choosing_field")
            /\ Answer(u, "cb_tx_edit", "prompt")
    /\ UNCHANGED <<transactions, next_tx_id, limits, saving_goals,
                   saving_goal_transactions, budgets, fsm_data,
                   user_goal_action_context, now>>

cb_edit_field(u, field) ==
    /\ message' = <<>>
    /\ IF u \notin DOMAIN user_edit_tx_context
       THEN /\ Answer(u, "cb_edit_field", "abort")
            /\ UNCHANGED <<fsm_state, user_edit_tx_context>>
       ELSE /\ user_edit_tx_context' =
                   Put(user_edit_tx_context, u,
                       Merge([field |-> field], user_edit_tx_context[u]))
            /\ set_state(u, "EditTransactionStates:editing_field")
            /\ Answer(u, "cb_edit_field", "prompt")
    /\ UNCHANGED <<db_vars, fsm_data, user_goal_action_context, now>>

edit_tx_field_value(u, text) ==
    /\ Routed(u, text, "edit_tx_field_value")
    /\ IF u \notin DOMAIN user_edit_tx_context
       THEN /\ clear(u)
            /\ Answer(u, "edit_tx_field_value", "abort")
            /\ UNCHANGED <<db_vars, user_edit_tx_context>>
       ELSE LET ctx    == user_edit_tx_context[u]
                tx_id  == ctx.tx_id
                field  == ctx.field
                parsed == extract_amount_and_note(text)
                value  == strip(text)
                done   == /\ clear(u)
                          /\ user_edit_tx_context' =
                                Pop(user_edit_tx_context, u)
                          /\ Answer(u, "edit_tx_field_value", "ok")
                again  == /\ Answer(u, "edit_tx_field_value", "error")
                          /\ UNCHANGED <<transactions, fsm_state, fsm_data,
                                         user_edit_tx_context>>
            IN  /\ get_or_create_user(u)
                /\ UNCHANGED <<next_tx_id, limits, saving_goals,
                               saving_goal_transactions, budgets>>
                /\ IF get_transaction(transactions, u, tx_id) = <<>>
                   THEN /\ clear(u)
                        /\ Answer(u, "edit_tx_field_value", "abort")
                        /\ UNCHANGED <<transactions, user_edit_tx_context>>
                   ELSE IF field = "amount"
                   THEN IF ~parsed.ok \/ FLe(parsed.v, 0)
                        THEN again
                        ELSE /\ transactions' =
                                   update_transaction_amount(
                                       transactions, u, tx_id, parsed.v)
                             /\ done
                   ELSE IF field = "category"
                   THEN IF value = <<>>
                        THEN again
                        ELSE /\ transactions' =
                                   update_transaction_category(
                                       transactions, u, tx_id, value)
                             /\ done
                   ELSE /\ transactions' =
                              update_transaction_note(
                                  transactions, u, tx_id,
                                  IF value = <<"-">> THEN <<>> ELSE value)
                        /\ done
    /\ UNCHANGED <<user_goal_action_context, now>>

-----------------------------------------------------------------------------
(* /categories and /limit *)

cmd_categories_body(u, handler) ==
    /\ clear(u)
    /\ get_or_create_user(u)
    /\ Answer(u, handler, "info")
    /\ UNCHANGED <<transactions, next_tx_id, limits, saving_goals,
                   saving_goal_transactions, budgets,
                   user_goal_action_context, user_edit_tx_context, now>>

cmd_categories(u, text) ==
    /\ Routed(u, text, "cmd_categories")
    /\ cmd_categories_body(u, "cmd_categories")

categories_btn(u, text) ==
    /\ Routed(u, text, "categories_btn")
    /\ cmd_categories_body(u, "categories_btn")

cb_cat_add(u) ==
    /\ message' = <<>>
    /\ set_state(u, "CategoryStates:choosing_type")
    /\ Answer(u, "cb_cat_add", "prompt")
    /\ UNCHANGED <<db_vars, fsm_data, user_goal_action_context,
                   user_edit_tx_context, now>>

cb_cat_type(u, cat_type) ==
    /\ message' = <<>>
    /\ update_data(u, [cat_type |-> cat_type])
    /\ set_state(u, "CategoryStates:entering_name")
    /\ Answer(u, "cb_cat_type", "prompt")
    /\ UNCHANGED <<db_vars, user_goal_action_context, user_edit_tx_context,
                   now>>

MaxCategories == 19

cat_enter_name(u, text) ==
    /\ Routed(u, text, "cat_enter_name")
    /\ next_cat_id <= MaxCategories
    /\ LET name == strip(text)
           cats == UserEnsured(u).categories
           more == add_category(cats.rows, cats.next, u, name,
                                fsm_data[u].cat_type)
       IN  IF name = <<>>
           THEN /\ Answer(u, "cat_enter_name", "error")
                /\ UNCHANGED <<users, wallets, categories, next_cat_id,
                               fsm_state, fsm_data>>
           ELSE /\ users' = UserEnsured(u).users
                /\ wallets' = UserEnsured(u).wallets
                /\ categories' = more.rows
                /\ next_cat_id' = more.next
                /\ clear(u)
                /\ Answer(u, "cat_enter_name", "ok")
    /\ UNCHANGED <<transactions, next_tx_id, limits, saving_goals,
                   saving_goal_transactions, budgets,
                   user_goal_action_context, user_edit_tx_context, now>>

\* The delete that takes the transactions of the category along.
cb_cat_delete_cascading(u, cat_id) ==
    /\ message' = <<>>
    /\ users' = UserEnsured(u).users
    /\ wallets' = UserEnsured(u).wallets
    /\ categories' = delete_category(UserEnsured(u).categories.rows, u, cat_id)
    /\ next_cat_id' = UserEnsured(u).categories.next
    /\ transactions' =
          SelectSeq(transactions,
                    LAMBDA r : ~\E i \in 1..Len(categories) :
                                   /\ categories[i].id = cat_id
                                   /\ categories[i].user_id = u
                                   /\ r.user_id = u
                                   /\ r.category = categories[i].name)
    /\ Answer(u, "cb_cat_delete", "ok")
    /\ UNCHANGED <<next_tx_id, limits, saving_goals,
                   saving_goal_transactions, budgets, fsm_state, fsm_data,
                   user_goal_action_context, user_edit_tx_context, now>>

cb_cat_delete(u, cat_id) ==
    /\ message' = <<>>
    /\ users' = UserEnsured(u).users
    /\ wallets' = UserEnsured(u).wallets
    /\ categories' = delete_category(UserEnsured(u).categories.rows, u, cat_id)
    /\ next_cat_id' = UserEnsured(u).categories.next
    /\ Answer(u, "cb_cat_delete", "ok")
    /\ UNCHANGED <<transactions, next_tx_id, limits, saving_goals,
                   saving_goal_transactions, budgets, fsm_state, fsm_data,
                   user_goal_action_context, user_edit_tx_context, now>>

cmd_limit(u, text) ==
    /\ Routed(u, text, "cmd_limit")
    /\ set_state(u, "LimitStates:choosing_category")
    /\ get_or_create_user(u)
    /\ Answer(u, "cmd_limit", "prompt")
    /\ UNCHANGED <<transactions, next_tx_id, limits, saving_goals,
                   saving_goal_transactions, budgets, fsm_data,
                   user_goal_action_context, user_edit_tx_context, now>>

limit_choose_category(u, text) ==
    /\ Routed(u, text, "limit_choose_category")
    /\ LET category == strip(text)
       IN  IF category = <<>>
           THEN /\ Answer(u, "limit_choose_category", "error")
                /\ UNCHANGED <<fsm_state, fsm_data>>
           ELSE /\ update_data(u, [category |-> category])
                /\ set_state(u, "LimitStates:entering_amount")
                /\ Answer(u, "limit_choose_category", "prompt")
    /\ UNCHANGED <<db_vars, user_goal_action_context, user_edit_tx_context,
                   now>>

limit_enter_amount(u, text) ==
    /\ Routed(u, text, "limit_enter_amount")
    /\ LET parsed == extract_amount_and_note(text)
           after  == set_limit(limits, u, fsm_data[u].category, "month",
                               parsed.v)
       IN  IF ~parsed.ok \/ FLe(parsed.v, 0)
           THEN /\ Answer(u, "limit_enter_amount", "error")
                /\ UNCHANGED <<db_vars, fsm_state, fsm_data>>
           ELSE /\ Len(after) <= MaxLimits
                /\ get_or_create_user(u)
                /\ limits' = after
                /\ clear(u)
                /\ Answer(u, "limit_enter_amount", "ok")
                /\ UNCHANGED <<transactions, next_tx_id, saving_goals,
                               saving_goal_transactions, budgets>>
    /\ UNCHANGED <<user_goal_action_context, user_edit_tx_context, now>>

-----------------------------------------------------------------------------
(* The handlers that only read: reports, lists, exports, help, fallback *)

\* cmd_wallets, cmd_report, cmd_insights, cmd_transactions, cmd_export,
\* cmd_export_wallet and their reply-keyboard buttons: get_or_create_user
\* and a listing.
ReadOnlyCommands ==
    {"cmd_wallets", "wallets_btn", "cmd_report", "report_btn",
     "cmd_insights", "cmd_transactions", "tx_btn", "cmd_export",
     "cmd_export_wallet"}

cmd_read_only(u, text) ==
    /\ RouteTable[fsm_state[u]][text] \in ReadOnlyCommands
    /\ message' = text
    /\ get_or_create_user(u)
    /\ Answer(u, RouteTable[fsm_state[u]][text], "info")
    /\ UNCHANGED <<transactions, next_tx_id, limits, saving_goals,
                   saving_goal_transactions, budgets, fsm_state, fsm_data,
                   user_goal_action_context, user_edit_tx_context, now>>

\* cb_report_*, cb_cat_delete_mode, cb_export_wallet: get_or_create_user and
\* a listing.
cb_read_only(u) ==
    /\ message' = <<>>
    /\ get_or_create_user(u)
    /\ Answer(u, "cb_report", "info")
    /\ UNCHANGED <<transactions, next_tx_id, limits, saving_goals,
                   saving_goal_transactions, budgets, fsm_state, fsm_data,
                   user_goal_action_context, user_edit_tx_context, now>>

\* cmd_help, cmd_backup and fallback_handler touch neither store nor session.
cmd_no_effect(u, text) ==
    /\ RouteTable[fsm_state[u]][text]
          \in {"cmd_help", "cmd_backup", "fallback_handler"}
    /\ message' = text
    /\ Answer(u, RouteTable[fsm_state[u]][text], "info")
    /\ UNCHANGED <<db_vars, fsm_state, fsm_data, user_goal_action_context,
                   user_edit_tx_context, now>>

-----------------------------------------------------------------------------
(* /export_month *)

\* The longest run of non-digits at the head of s.
RECURSIVE NonDigitRun(_)
NonDigitRun(s) ==
    IF s = <<>> \/ s[1] \in Digits THEN 0 ELSE 1 + NonDigitRun(Tail(s))

\* re.match(r"(\d{1,2})[^\d]+(\d{4})", s): two digits are tried before one.
\* The result is the month of the match, or 0 when nothing matches here.
PeriodMatchAt(s) ==
    LET try(k) ==
            LET rest == SubSeq(s, k + 1, Len(s))
                gap  == NonDigitRun(rest)
                year == SubSeq(rest, gap + 1, gap + 4)
            IN  /\ Len(s) >= k
                /\ AllDigits(SubSeq(s, 1, k))
                /\ gap >= 1
                /\ Len(rest) >= gap + 4
                /\ AllDigits(year)
    IN  IF try(2) THEN [ok |-> TRUE, month |-> DigitsToInt(SubSeq(s, 1, 2))]
        ELSE IF try(1)
        THEN [ok |-> TRUE, month |-> DigitsToInt(SubSeq(s, 1, 1))]
        ELSE [ok |-> FALSE, month |-> 0]

\* re.search: the leftmost position that matches.
RECURSIVE PeriodSearch(_)
PeriodSearch(s) ==
    IF s = <<>> THEN [ok |-> FALSE, month |-> 0]
    ELSE IF PeriodMatchAt(s).ok THEN PeriodMatchAt(s)
    ELSE PeriodSearch(Tail(s))

ThisMonth == <<"t", "h", "á", "n", "g", " ", "n", "à", "y">>

PeriodAccepted(raw) ==
    LET text == lower(strip(raw))
    IN  \/ contains(text, ThisMonth)
        \/ replace(text, <<" ">>, <<>>)
              \in {<<"t", "h", "a", "n", "g", "n", "a", "y">>,
                   <<"t", "h", "a", "n", "g", "n", "à", "y">>}
        \/ /\ PeriodSearch(text).ok
           /\ PeriodSearch(text).month \in 1..12

cmd_export_month(u, text) ==
    /\ Routed(u, text, "cmd_export_month")
    /\ get_or_create_user(u)
    /\ set_state(u, "ExportMonthStates:entering_period")
    /\ Answer(u, "cmd_export_month", "prompt")
    /\ UNCHANGED <<transactions, next_tx_id, limits, saving_goals,
                   saving_goal_transactions, budgets, fsm_data,
                   user_goal_action_context, user_edit_tx_context, now>>

export_month_enter_period(u, text) ==
    /\ Routed(u, text, "export_month_enter_period")
    /\ IF ~PeriodAccepted(text)
       THEN /\ Answer(u, "export_month_enter_period", "error")
            /\ UNCHANGED <<db_vars, fsm_state, fsm_data>>
       ELSE /\ clear(u)
            /\ get_or_create_user(u)
            /\ Answer(u, "export_month_enter_period", "ok")
            /\ UNCHANGED <<transactions, next_tx_id, limits, saving_goals,
                           saving_goal_transactions, budgets>>
    /\ UNCHANGED <<user_goal_action_context, user_edit_tx_context, now>>

-----------------------------------------------------------------------------
(* The clock *)

MaxNow == 2

\* datetime.utcnow() advances between updates.
Tick ==
    /\ now < MaxNow
    /\ now' = now + 1
    /\ UNCHANGED <<db_vars, fsm_state, fsm_data, user_goal_action_context,
                   user_edit_tx_context, reply, message, calc, tasks>>

-----------------------------------------------------------------------------
(* Handlers as coroutines. create_app builds Dispatcher() and hands every    *)
(* webhook request to it: no lock and no queue stands between two updates,   *)
(* of one user or of two. A handler runs from one await to the next; the     *)
(* awaited call (FSMContext.get_data, FSMContext.clear, message.answer)      *)
(* takes effect in a step of its own, and between two steps of a handler     *)
(* the handlers of other updates may take theirs. The calls of db are plain  *)
(* calls: they belong to the step of the code around them.                   *)

Suspend(t, rec) == tasks' = [tasks EXCEPT ![t] = rec]

Finish(t) == tasks' = [tasks EXCEPT ![t] = IdleTask]

Say(u, handler, kind) ==
    reply' = [user |-> u, handler |-> handler, kind |-> kind]

\* The update gets the first free coroutine slot.
FreeSlot(t) ==
    /\ tasks[t].pc = "idle"
    /\ \A t2 \in TaskIds : t2 < t => tasks[t2].pc # "idle"

\* add_tx_wallet from its entry to its first await: the state filter has
\* accepted the update.
add_tx_wallet_begin(t, u, text) ==
    /\ FreeSlot(t)
    /\ Routed(u, text, "add_tx_wallet")
    /\ Suspend(t, [IdleTask EXCEPT
                      !.user = u, !.handler = "add_tx_wallet", !.text = text,
                      !.pc = IF strip(text) = <<>> THEN "answer_blank"
                             ELSE "get_data"])
    /\ UNCHANGED <<db_vars, fsm_state, fsm_data, user_goal_action_context,
                   user_edit_tx_context, now, reply, calc>>

\* add_tx_wallet from one await to the next.
add_tx_wallet_resume(t) ==
    /\ tasks[t].handler = "add_tx_wallet"
    /\ LET me == tasks[t]
           u  == me.user
           chosen == WalletNamed(UserEnsured(u).wallets, u, strip(me.text))
       IN  CASE me.pc \in {"answer_blank", "answer_unknown"} ->
                   /\ Say(u, "add_tx_wallet", "error")
                   /\ Finish(t)
                   /\ UNCHANGED <<db_vars, fsm_state, fsm_data>>
             [] me.pc = "get_data" ->
                   /\ Suspend(t, [me EXCEPT !.data = fsm_data[u],
                                            !.pc = "body"])
                   /\ UNCHANGED <<db_vars, fsm_state, fsm_data, reply>>
             [] me.pc = "body" ->
                   IF ~({"tx_type", "amount", "note", "category"}
                           \subseteq DOMAIN me.data)
                   THEN /\ Say(u, "add_tx_wallet", "exception")
                        /\ Finish(t)
                        /\ UNCHANGED <<db_vars, fsm_state, fsm_data>>
                   ELSE /\ get_or_create_user(u)
                        /\ IF chosen = <<>>
                           THEN /\ Suspend(t, [me EXCEPT
                                                  !.pc = "answer_unknown"])
                                /\ UNCHANGED <<transactions, next_tx_id>>
                           ELSE /\ next_tx_id <= MaxTx
                                /\ transactions' =
                                      add_transaction(
                                          transactions, next_tx_id, u,
                                          me.data.tx_type, me.data.amount,
                                          me.data.category, me.data.note,
                                          chosen[1].id, now)
                                /\ next_tx_id' = next_tx_id + 1
                                /\ Suspend(t, [me EXCEPT
                                                  !.tx_id = next_tx_id,
                                                  !.pc = "clear"])
                        /\ UNCHANGED <<limits, saving_goals,
                                       saving_goal_transactions, budgets,
                                       fsm_state, fsm_data, reply>>
             [] me.pc = "clear" ->
                   /\ clear(u)
                   /\ Suspend(t, [me EXCEPT !.pc = "check"])
                   /\ UNCHANGED <<db_vars, reply>>
             [] me.pc = "check" ->
                   /\ \E today \in LocalDates(now) :
                         Suspend(t, [me EXCEPT
                            !.pc = "answer_ok",
                            !.kind =
                               IF me.data.tx_type = "expense"
                                  /\ LimitExceeded(transactions, limits, u,
                                                   me.data.category, today)
                               THEN "ok_warn" ELSE "ok"])
                   /\ UNCHANGED <<db_vars, fsm_state, fsm_data, reply>>
             [] me.pc = "answer_ok" ->
                   /\ Say(u, "add_tx_wallet", me.kind)
                   /\ Finish(t)
                   /\ UNCHANGED <<db_vars, fsm_state, fsm_data>>
    /\ UNCHANGED <<user_goal_action_context, user_edit_tx_context, now,
                   message, calc>>

\* goal_money_note from its entry to its first await.
goal_money_note_begin(t, u, text) ==
    /\ FreeSlot(t)
    /\ Routed(u, text, "goal_money_note")
    /\ Suspend(t, [IdleTask EXCEPT
                      !.user = u, !.handler = "goal_money_note",
                      !.text = text,
                      !.ctx = IF u \in DOMAIN user_goal_action_context
                              THEN user_goal_action_context[u]
                              ELSE EmptyDict,
                      !.pc = IF u \in DOMAIN user_goal_action_context
                             THEN "get_data" ELSE "clear_expired"])
    /\ UNCHANGED <<db_vars, fsm_state, fsm_data, user_goal_action_context,
                   user_edit_tx_context, now, reply, calc>>

\* goal_money_note from one await to the next. data.get("amount") is None
\* when the session was cleared meanwhile: None + amount and amount > None
\* raise TypeError, as does a current_amount read back as None.
goal_money_note_resume(t) ==
    /\ tasks[t].handler = "goal_money_note"
    /\ LET me      == tasks[t]
           u       == me.user
           amount  == IF "amount" \in DOMAIN me.data THEN me.data.amount
                      ELSE NULL
           note0   == strip(me.text)
           note    == IF note0 = <<"-">> THEN <<>> ELSE note0
           goal    == get_goal(saving_goals, me.ctx.goal_id)
           current == goal[1].current_amount
           commit(tx_type, new_amount) ==
               /\ Len(saving_goal_transactions) < MaxGoalTx
               /\ saving_goals' =
                     update_goal_amount(saving_goals, goal[1].id, new_amount)
               /\ saving_goal_transactions' =
                     add_goal_transaction(saving_goal_transactions,
                                          goal[1].id, tx_type, amount, note)
               /\ IF goal[1].target_amount = NULL
                  THEN /\ Say(u, "goal_money_note", "exception")
                       /\ Finish(t)
                  ELSE /\ Suspend(t, [me EXCEPT !.pc = "clear"])
                       /\ UNCHANGED reply
           raise ==
               /\ Say(u, "goal_money_note", "exception")
               /\ Finish(t)
               /\ UNCHANGED <<saving_goals, saving_goal_transactions>>
       IN  CASE me.pc = "clear_expired" ->
                   /\ clear(u)
                   /\ Suspend(t, [me EXCEPT !.pc = "answer_expired"])
                   /\ UNCHANGED <<saving_goals, saving_goal_transactions,
                                  user_goal_action_context, reply>>
             [] me.pc = "answer_expired" ->
                   /\ Say(u, "goal_money_note", "abort")
                   /\ Finish(t)
                   /\ UNCHANGED <<saving_goals, saving_goal_transactions,
                                  user_goal_action_context, fsm_state,
                                  fsm_data>>
             [] me.pc = "get_data" ->
                   /\ Suspend(t, [me EXCEPT !.data = fsm_data[u],
                                            !.pc = "body"])
                   /\ UNCHANGED <<saving_goals, saving_goal_transactions,
                                  user_goal_action_context, fsm_state,
                                  fsm_data, reply>>
             [] me.pc = "body" ->
                   /\ UNCHANGED <<user_goal_action_context, fsm_state,
                                  fsm_data>>
                   /\ IF goal = <<>>
                      THEN /\ Suspend(t, [me EXCEPT !.pc = "answer_missing"])
                           /\ UNCHANGED <<saving_goals,
                                          saving_goal_transactions, reply>>
                      ELSE IF amount = NULL \/ current = NULL
                      THEN raise
                      ELSE IF me.ctx.action = "deposit"
                      THEN commit("deposit", FAdd(current, amount))
                      ELSE IF FGt(amount, current)
                      THEN /\ Suspend(t, [me EXCEPT !.pc = "answer_error"])
                           /\ UNCHANGED <<saving_goals,
                                          saving_goal_transactions, reply>>
                      ELSE commit("withdraw", FSub(current, amount))
             [] me.pc = "answer_missing" ->
                   /\ Say(u, "goal_money_note", "abort")
                   /\ Suspend(t, [me EXCEPT !.pc = "clear_missing"])
                   /\ UNCHANGED <<saving_goals, saving_goal_transactions,
                                  user_goal_action_context, fsm_state,
                                  fsm_data>>
             [] me.pc = "clear_missing" ->
                   /\ clear(u)
                   /\ Finish(t)
                   /\ UNCHANGED <<saving_goals, saving_goal_transactions,
                                  user_goal_action_context, reply>>
             [] me.pc = "answer_error" ->
                   /\ Say(u, "goal_money_note", "error")
                   /\ Finish(t)
                   /\ UNCHANGED <<saving_goals, saving_goal_transactions,
                                  user_goal_action_context, fsm_state,
                                  fsm_data>>
             [] me.pc = "clear" ->
                   /\ clear(u)
                   /\ Suspend(t, [me EXCEPT !.pc = "pop"])
                   /\ UNCHANGED <<saving_goals, saving_goal_transactions,
                                  user_goal_action_context, reply>>
             [] me.pc = "pop" ->
                   /\ user_goal_action_context' =
                         Pop(user_goal_action_context, u)
                   /\ Suspend(t, [me EXCEPT !.pc = "answer_ok"])
                   /\ UNCHANGED <<saving_goals, saving_goal_transactions,
                                  fsm_state, fsm_data, reply>>
             [] me.pc = "answer_ok" ->
                   /\ Say(u, "goal_money_note", "ok")
                   /\ Finish(t)
                   /\ UNCHANGED <<saving_goals, saving_goal_transactions,
                                  user_goal_action_context, fsm_state,
                                  fsm_data>>
    /\ UNCHANGED <<users, wallets, transactions, next_tx_id, categories,
                   next_cat_id, limits, budgets, user_edit_tx_context, now,
                   message, calc>>

-----------------------------------------------------------------------------
(* The messages and button presses the users send *)

\* The ledger: income, expense, salary, transfer, edit and delete. User 1
\* answers each prompt with a text of the kind it asks for, and between two
\* flows presses the edit and delete buttons of any transaction id, to edit
\* the amount; user 2 only records an income and presses delete buttons.
LedgerTexts(u) ==
    LET s == fsm_state[u]
    IN  IF u = 1
        THEN CASE s = NoState -> {B_expense, C_salary, C_transfer}
               [] s = "AddTransactionStates:entering_amount_note" -> {T_5}
               [] s = "AddTransactionStates:choosing_category" -> {T_E}
               [] s = "AddTransactionStates:choosing_wallet" -> {T_L}
               [] s = "SalaryStates:entering_amount" -> {T_10}
               [] s = "TransferStates:choosing_from_wallet" -> {T_E}
               [] s = "TransferStates:choosing_to_wallet" -> {T_E, T_L}
               [] s = "TransferStates:entering_amount" -> {T_5}
               [] s = "TransferStates:entering_note" -> {T_dash}
               [] s = "EditTransactionStates:editing_field" -> {T_10}
               [] OTHER -> {}
        ELSE CASE s = NoState -> {B_income}
               [] s = "AddTransactionStates:entering_amount_note" -> {T_5}
               [] s = "AddTransactionStates:choosing_category" -> {T_E}
               [] s = "AddTransactionStates:choosing_wallet" -> {T_E}
               [] OTHER -> {}

LedgerAlphabet ==
    {B_income, B_expense, C_salary, C_transfer, T_5, T_10, T_E, T_L, T_dash}

NextLedger ==
    \/ \E u \in Users, text \in LedgerAlphabet :
          \/ text \in LedgerTexts(u) /\ add_income_btn(u, text)
          \/ text \in LedgerTexts(u) /\ add_expense_btn(u, text)
          \/ text \in LedgerTexts(u) /\ add_tx_amount_note(u, text)
          \/ text \in LedgerTexts(u) /\ add_tx_category(u, text)
          \/ text \in LedgerTexts(u) /\ add_tx_wallet(u, text)
          \/ text \in LedgerTexts(u) /\ cmd_salary(u, text)
          \/ text \in LedgerTexts(u) /\ salary_enter_amount(u, text)
          \/ text \in LedgerTexts(u) /\ cmd_transfer(u, text)
          \/ text \in LedgerTexts(u) /\ transfer_choose_from(u, text)
          \/ text \in LedgerTexts(u) /\ transfer_choose_to(u, text)
          \/ text \in LedgerTexts(u) /\ transfer_enter_amount(u, text)
          \/ text \in LedgerTexts(u) /\ transfer_enter_note(u, text, FALSE)
          \/ text \in LedgerTexts(u) /\ edit_tx_field_value(u, text)
    \/ \E u \in Users, tx_id \in 1..MaxTx :
          \/ fsm_state[u] = NoState /\ cb_tx_delete(u, tx_id)
          \/ u = 1 /\ fsm_state[u] = NoState /\ cb_tx_edit(u, tx_id)
    \/ /\ fsm_state[1] = "EditTransactionStates:choosing_field"
       /\ cb_edit_field(1, "amount")

SpecLedger == Init /\ [][NextLedger]_vars

\* Transfers between the wallets of user 1, after incomes that fund them.
\* An amount may be the text "nan", and the store may fail between the two
\* inserts of a transfer.
TransferTexts(u) ==
    LET s == fsm_state[u]
    IN  CASE s = NoState -> {B_income, C_transfer}
          [] s = "AddTransactionStates:entering_amount_note" -> {T_10}
          [] s = "AddTransactionStates:choosing_category" -> {T_E}
          [] s = "AddTransactionStates:choosing_wallet" -> {T_E, T_L}
          [] s = "TransferStates:choosing_from_wallet" -> {T_E, T_L}
          [] s = "TransferStates:choosing_to_wallet" -> {T_E, T_L, T_5}
          [] s = "TransferStates:entering_amount" -> {T_5, T_nan, T_E}
          [] s = "TransferStates:entering_note" -> {T_dash, T_5}
          [] OTHER -> {}

TransferAlphabet ==
    {B_income, C_transfer, T_5, T_10, T_nan, T_E, T_L, T_dash}

NextTransfer ==
    \E text \in TransferAlphabet :
       \/ text \in TransferTexts(1) /\ add_income_btn(1, text)
       \/ text \in TransferTexts(1) /\ add_tx_amount_note(1, text)
       \/ text \in TransferTexts(1) /\ add_tx_category(1, text)
       \/ text \in TransferTexts(1) /\ add_tx_wallet(1, text)
       \/ text \in TransferTexts(1) /\ cmd_transfer(1, text)
       \/ text \in TransferTexts(1) /\ transfer_choose_from(1, text)
       \/ text \in TransferTexts(1) /\ transfer_choose_to(1, text)
       \/ text \in TransferTexts(1) /\ transfer_enter_amount(1, text)
       \/ /\ text \in TransferTexts(1)
          /\ \E store_fails \in BOOLEAN :
                transfer_enter_note(1, text, store_fails)

SpecTransfer == Init /\ [][NextTransfer]_vars

\* The saving goals: create, deposit, withdraw. User 1 answers each prompt,
\* or leaves the note step with /goals; user 2 only withdraws, from any goal
\* id.
GoalsAlphabet == {C_goals, C_goals_add, T_5, T_10, T_nan, T_E, T_dash}

GoalsTexts(u) ==
    LET s == fsm_state[u]
    IN  IF u = 1
        THEN CASE s = NoState -> {C_goals, C_goals_add}
               [] s = "CreateGoalStates:entering_name" -> {T_E}
               [] s = "CreateGoalStates:entering_target" -> {T_10}
               [] s = "GoalMoneyStates:entering_amount" ->
                      {T_5, T_10, T_nan}
               [] s = "GoalMoneyStates:entering_note" -> {T_5, C_goals}
               [] OTHER -> {}
        ELSE CASE s = "GoalMoneyStates:entering_amount" -> {T_5}
               [] s = "GoalMoneyStates:entering_note" -> {T_dash}
               [] OTHER -> {}

NextGoals ==
    \/ \E u \in Users, text \in GoalsAlphabet :
          \/ text \in GoalsTexts(u) /\ cmd_goals(u, text)
          \/ text \in GoalsTexts(u) /\ cmd_goals_add(u, text)
          \/ text \in GoalsTexts(u) /\ goal_enter_name(u, text)
          \/ text \in GoalsTexts(u) /\ goal_enter_target(u, text)
          \/ text \in GoalsTexts(u) /\ goal_money_amount(u, text)
          \/ text \in GoalsTexts(u) /\ goal_money_note(u, text)
    \/ \E u \in Users, goal_id \in 1..MaxGoals :
          \/ fsm_state[u] = NoState /\ cb_goal_withdraw(u, goal_id)
          \/ u = 1 /\ fsm_state[u] = NoState /\ cb_goal_deposit(u, goal_id)
    \/ fsm_state[1] = NoState /\ cb_goal_create_new(1)

SpecGoals == Init /\ [][NextGoals]_vars

\* The session: user 1 who, at any step of a flow, types an amount, a
\* wallet name, a period, or the start command of some flow, as long as no
\* flow has committed a row to the store.
SessionAlphabet ==
    {C_start, C_add, C_budget, C_salary, C_transfer, C_goals_add, C_limit,
     C_export_month, T_5, T_E, T_L, T_month}

StoreEmpty == transactions = <<>> /\ limits = <<>> /\ saving_goals = <<>>

NextSession ==
    \/ \E text \in SessionAlphabet :
          \/ StoreEmpty /\ cmd_start(1, text)
          \/ StoreEmpty /\ cmd_add(1, text)
          \/ StoreEmpty /\ add_tx_amount_note(1, text)
          \/ StoreEmpty /\ add_tx_category(1, text)
          \/ StoreEmpty /\ add_tx_wallet(1, text)
          \/ StoreEmpty /\ cmd_budget(1, text)
          \/ StoreEmpty /\ budget_income(1, text)
          \/ StoreEmpty /\ cmd_salary(1, text)
          \/ StoreEmpty /\ salary_enter_amount(1, text)
          \/ StoreEmpty /\ cmd_transfer(1, text)
          \/ StoreEmpty /\ transfer_choose_from(1, text)
          \/ StoreEmpty /\ transfer_choose_to(1, text)
          \/ StoreEmpty /\ transfer_enter_amount(1, text)
          \/ StoreEmpty /\ transfer_enter_note(1, text, FALSE)
          \/ StoreEmpty /\ cmd_goals_add(1, text)
          \/ StoreEmpty /\ goal_enter_name(1, text)
          \/ StoreEmpty /\ goal_enter_target(1, text)
          \/ StoreEmpty /\ cmd_limit(1, text)
          \/ StoreEmpty /\ limit_choose_category(1, text)
          \/ StoreEmpty /\ limit_enter_amount(1, text)
          \/ StoreEmpty /\ cmd_export_month(1, text)
          \/ StoreEmpty /\ export_month_enter_period(1, text)
          \/ StoreEmpty /\ cmd_no_effect(1, text)
    \/ \E tx_type \in {"income", "expense"} :
          StoreEmpty /\ cb_add_tx_type(1, tx_type)

SpecSession == Init /\ [][NextSession]_vars

\* The month limits: user 1 sets a limit of 5 on category E and records
\* expenses of 5, in that category and in another; user 2, who has no limit,
\* records expenses of 10 in category E between the flows of user 1; the
\* clock runs from one month into the next.
LimitsAlphabet == {C_limit, B_expense, T_5, T_10, T_E, T_L}

LimitsTexts(u) ==
    LET s == fsm_state[u]
    IN  IF u = 1
        THEN CASE s = NoState -> {C_limit, B_expense}
               [] s = "LimitStates:choosing_category" -> {T_E}
               [] s = "LimitStates:entering_amount" -> {T_5}
               [] s = "AddTransactionStates:entering_amount_note" -> {T_5}
               [] s = "AddTransactionStates:choosing_category" -> {T_E, T_L}
               [] s = "AddTransactionStates:choosing_wallet" -> {T_E}
               [] OTHER -> {}
        ELSE IF fsm_state[1] # NoState THEN {}
        ELSE CASE s = NoState -> {B_expense}
               [] s = "AddTransactionStates:entering_amount_note" -> {T_10}
               [] s = "AddTransactionStates:choosing_category" -> {T_E}
               [] s = "AddTransactionStates:choosing_wallet" -> {T_E}
               [] OTHER -> {}

NextLimits ==
    \/ \E u \in Users, text \in LimitsAlphabet :
          \/ text \in LimitsTexts(u) /\ cmd_limit(u, text)
          \/ text \in LimitsTexts(u) /\ limit_choose_category(u, text)
          \/ text \in LimitsTexts(u) /\ limit_enter_amount(u, text)
          \/ text \in LimitsTexts(u) /\ add_expense_btn(u, text)
          \/ text \in LimitsTexts(u) /\ add_tx_amount_note(u, text)
          \/ text \in LimitsTexts(u) /\ add_tx_category(u, text)
          \/ text \in LimitsTexts(u) /\ add_tx_wallet(u, text)
    \/ Tick

SpecLimits == Init /\ [][NextLimits]_vars

\* The steps of every flow, one flow after another. At each step user 1
\* types either a text of the kind the prompt asks for or one that fails the
\* validation of the step: a text that is no amount, the amount 0, a blank,
\* a name no wallet bears, the source wallet as the destination. User 2
\* records incomes between the flows of user 1. A flow starts while the
\* ledger holds at most one row.
StepsAlphabet == {B_income, B_expense, C_budget, C_salary, C_wallets_add,
                  C_transfer, C_goals_add, C_limit, C_export_month, T_5, T_10,
                  T_E, T_L, T_e, T_0, T_dash, T_blank, T_month}

Committed ==
    Len(transactions) + Len(saving_goals) + Len(saving_goal_transactions)
       + Len(limits) + Len(budgets)

StepsTexts(u) ==
    LET s == fsm_state[u]
    IN  IF u = 1
        THEN CASE s = NoState ->
                      IF Committed <= 1
                      THEN {B_expense, C_budget, C_salary, C_wallets_add,
                            C_transfer, C_goals_add, C_limit, C_export_month}
                      ELSE {}
               [] s = "AddTransactionStates:entering_amount_note" ->
                      {T_5, T_E, T_0}
               [] s = "AddTransactionStates:choosing_category" ->
                      {T_E, T_blank}
               [] s = "AddTransactionStates:choosing_wallet" ->
                      {T_e, T_5, T_blank}
               [] s = "BudgetStates:entering_income" -> {T_10, T_E}
               [] s = "SalaryStates:entering_amount" -> {T_10, T_0}
               [] s = "WalletAddStates:entering_name" -> {T_5, T_blank}
               [] s = "TransferStates:choosing_from_wallet" -> {T_E, T_10}
               [] s = "TransferStates:choosing_to_wallet" -> {T_L, T_E, T_10}
               [] s = "TransferStates:entering_amount" -> {T_5, T_E, T_0}
               [] s = "TransferStates:entering_note" -> {T_dash}
               [] s = "CreateGoalStates:entering_name" -> {T_E, T_blank}
               [] s = "CreateGoalStates:entering_target" -> {T_10, T_E}
               [] s = "GoalMoneyStates:entering_amount" -> {T_5, T_E}
               [] s = "GoalMoneyStates:entering_note" -> {T_dash}
               [] s = "EditTransactionStates:editing_field" -> {T_10, T_E}
               [] s = "CategoryStates:entering_name" -> {T_L, T_blank}
               [] s = "LimitStates:choosing_category" -> {T_L, T_blank}
               [] s = "LimitStates:entering_amount" -> {T_5, T_0}
               [] s = "ExportMonthStates:entering_period" -> {T_month, T_E}
               [] OTHER -> {}
        ELSE IF fsm_state[1] # NoState THEN {}
        ELSE CASE s = NoState -> IF Committed <= 1 THEN {B_income} ELSE {}
               [] s = "AddTransactionStates:entering_amount_note" -> {T_10}
               [] s = "AddTransactionStates:choosing_category" -> {T_L}
               [] s = "AddTransactionStates:choosing_wallet" -> {T_E, T_0}
               [] OTHER -> {}

\* The buttons under the answers: user 1 presses a button of a flow between
\* two flows, and the buttons of the budget answer once it is there.
Idle(u) == fsm_state[u] = NoState /\ Committed <= 1

BudgetShown(u) ==
    reply = [user |-> u, handler |-> "budget_income", kind |-> "ok"]

\* The delete button of the first category user 1 has, pressed while the
\* transfer flow waits for the destination wallet, the ledger is empty and
\* no category but the first nine was ever inserted.
FirstCategory(u) ==
    LET own == SelectSeq(categories, LAMBDA c : c.user_id = u)
    IN  IF own = <<>> THEN 0 ELSE own[1].id

NextSteps ==
    \/ \E u \in Users, text \in StepsAlphabet :
          \/ text \in StepsTexts(u) /\ add_income_btn(u, text)
          \/ text \in StepsTexts(u) /\ add_expense_btn(u, text)
          \/ text \in StepsTexts(u) /\ add_tx_amount_note(u, text)
          \/ text \in StepsTexts(u) /\ add_tx_category(u, text)
          \/ text \in StepsTexts(u) /\ add_tx_wallet(u, text)
          \/ text \in StepsTexts(u) /\ cmd_budget(u, text)
          \/ text \in StepsTexts(u) /\ budget_income(u, text)
          \/ text \in StepsTexts(u) /\ cmd_salary(u, text)
          \/ text \in StepsTexts(u) /\ salary_enter_amount(u, text)
          \/ text \in StepsTexts(u) /\ cmd_wallets_add(u, text)
          \/ text \in StepsTexts(u) /\ wallets_add_enter_name(u, text)
          \/ text \in StepsTexts(u) /\ cmd_transfer(u, text)
          \/ text \in StepsTexts(u) /\ transfer_choose_from(u, text)
          \/ text \in StepsTexts(u) /\ transfer_choose_to(u, text)
          \/ text \in StepsTexts(u) /\ transfer_enter_amount(u, text)
          \/ text \in StepsTexts(u) /\ transfer_enter_note(u, text, FALSE)
          \/ text \in StepsTexts(u) /\ cmd_goals_add(u, text)
          \/ text \in StepsTexts(u) /\ goal_enter_name(u, text)
          \/ text \in StepsTexts(u) /\ goal_enter_target(u, text)
          \/ text \in StepsTexts(u) /\ goal_money_amount(u, text)
          \/ text \in StepsTexts(u) /\ goal_money_note(u, text)
          \/ text \in StepsTexts(u) /\ edit_tx_field_value(u, text)
          \/ text \in StepsTexts(u) /\ cat_enter_name(u, text)
          \/ text \in StepsTexts(u) /\ cmd_limit(u, text)
          \/ text \in StepsTexts(u) /\ limit_choose_category(u, text)
          \/ text \in StepsTexts(u) /\ limit_enter_amount(u, text)
          \/ text \in StepsTexts(u) /\ cmd_export_month(u, text)
          \/ text \in StepsTexts(u) /\ export_month_enter_period(u, text)
    \/ BudgetShown(1) /\ cb_budget_note(1, 10)
    \/ BudgetShown(1) /\ cb_budget_goals(1, 10)
    \/ Idle(1) /\ cb_goal_deposit(1, 1)
    \/ Idle(1) /\ cb_tx_edit(1, 1)
    \/ Idle(1) /\ cb_cat_add(1)
    \/ /\ fsm_state[1] = "EditTransactionStates:choosing_field"
       /\ cb_edit_field(1, "amount")
    \/ /\ fsm_state[1] = "CategoryStates:choosing_type"
       /\ cb_cat_type(1, "expense")
    \/ /\ fsm_state[1] = "TransferStates:choosing_to_wallet"
       /\ Committed = 0
       /\ FirstCategory(1) # 0
       /\ next_cat_id <= Len(DefaultCategories) + 1
       /\ cb_cat_delete(1, FirstCategory(1))

SpecSteps == Init /\ [][NextSteps]_vars

\* The amounts: user 1 on every path that writes an amount, typing at each
\* amount prompt a positive amount, the amount 0 or the text "nan", and
\* editing the amount of any transaction between two flows.
AmountsAlphabet ==
    {B_expense, C_salary, C_transfer, T_5, T_10, T_0, T_nan, T_E, T_L, T_dash}

AmountsTexts ==
    LET s == fsm_state[1]
    IN  CASE s = NoState -> {B_expense, C_salary, C_transfer}
          [] s = "AddTransactionStates:entering_amount_note" ->
                 {T_5, T_0, T_nan}
          [] s = "AddTransactionStates:choosing_category" -> {T_E}
          [] s = "AddTransactionStates:choosing_wallet" -> {T_E}
          [] s = "SalaryStates:entering_amount" -> {T_10, T_0, T_nan}
          [] s = "TransferStates:choosing_from_wallet" -> {T_E}
          [] s = "TransferStates:choosing_to_wallet" -> {T_L}
          [] s = "TransferStates:entering_amount" -> {T_5, T_0, T_nan}
          [] s = "TransferStates:entering_note" -> {T_dash}
          [] s = "EditTransactionStates:editing_field" -> {T_10, T_0, T_nan}
          [] OTHER -> {}

NextAmounts ==
    \/ \E text \in AmountsAlphabet :
          \/ text \in AmountsTexts /\ add_expense_btn(1, text)
          \/ text \in AmountsTexts /\ add_tx_amount_note(1, text)
          \/ text \in AmountsTexts /\ add_tx_category(1, text)
          \/ text \in AmountsTexts /\ add_tx_wallet(1, text)
          \/ text \in AmountsTexts /\ cmd_salary(1, text)
          \/ text \in AmountsTexts /\ salary_enter_amount(1, text)
          \/ text \in AmountsTexts /\ cmd_transfer(1, text)
          \/ text \in AmountsTexts /\ transfer_choose_from(1, text)
          \/ text \in AmountsTexts /\ transfer_choose_to(1, text)
          \/ text \in AmountsTexts /\ transfer_enter_amount(1, text)
          \/ text \in AmountsTexts /\ transfer_enter_note(1, text, FALSE)
          \/ text \in AmountsTexts /\ edit_tx_field_value(1, text)
    \/ \E tx_id \in 1..MaxTx : fsm_state[1] = NoState /\ cb_tx_edit(1, tx_id)
    \/ /\ fsm_state[1] = "EditTransactionStates:choosing_field"
       /\ cb_edit_field(1, "amount")

SpecAmounts == Init /\ [][NextAmounts]_vars

\* The edits: user 1 records an expense of 5 with the note L and user 2 an
\* income of 10 without a note. User 1 then presses the edit button of any
\* transaction id, picks any of the three fields and types a value for it
\* or a text the field refuses; user 2 does so between the flows of user 1,
\* for the category. User 1 may press the delete button of a transaction at
\* any step, and the delete button of the first category left while the new
\* value is awaited.
MaxEditRows == 2

EditAlphabet ==
    {B_income, B_expense, T_5_L, T_10, T_0, T_E, T_L, T_dash, T_blank}

EditTexts(u) ==
    LET s == fsm_state[u]
        field == IF u \in DOMAIN user_edit_tx_context
                    /\ "field" \in DOMAIN user_edit_tx_context[u]
                 THEN user_edit_tx_context[u].field ELSE ""
    IN  IF u = 2 /\ fsm_state[1] # NoState THEN {}
        ELSE
        CASE s = NoState ->
                 IF next_tx_id <= MaxEditRows
                    /\ \A i \in 1..Len(transactions) :
                          transactions[i].user_id # u
                 THEN (IF u = 1 THEN {B_expense} ELSE {B_income})
                 ELSE {}
          [] s = "AddTransactionStates:entering_amount_note" ->
                 IF u = 1 THEN {T_5_L} ELSE {T_10}
          [] s = "AddTransactionStates:choosing_category" -> {T_E}
          [] s = "AddTransactionStates:choosing_wallet" -> {T_E}
          [] s = "EditTransactionStates:editing_field" ->
                 CASE field = "amount" -> {T_10, T_0}
                   [] field = "category" -> {T_L, T_blank}
                   [] OTHER -> {T_dash, T_E}
          [] OTHER -> {}

NextEdit ==
    \/ \E u \in Users, text \in EditAlphabet :
          \/ text \in EditTexts(u) /\ add_income_btn(u, text)
          \/ text \in EditTexts(u) /\ add_expense_btn(u, text)
          \/ text \in EditTexts(u) /\ add_tx_amount_note(u, text)
          \/ text \in EditTexts(u) /\ add_tx_category(u, text)
          \/ text \in EditTexts(u) /\ add_tx_wallet(u, text)
          \/ text \in EditTexts(u) /\ edit_tx_field_value(u, text)
    \/ \E u \in Users, tx_id \in 1..MaxEditRows :
          /\ fsm_state[u] = NoState
          /\ u = 2 => fsm_state[1] = NoState
          /\ cb_tx_edit(u, tx_id)
    \/ \E u \in Users, field \in {"amount", "category", "note"} :
          /\ fsm_state[u] = "EditTransactionStates:choosing_field"
          /\ u = 2 => field = "category"
          /\ cb_edit_field(u, field)
    \/ \E tx_id \in 1..MaxEditRows :
          /\ fsm_state[1] \in {NoState, "EditTransactionStates:editing_field"}
          /\ cb_tx_delete(1, tx_id)
    \/ /\ fsm_state[1] = "EditTransactionStates:editing_field"
       /\ Len(transactions) = 0
       /\ FirstCategory(1) # 0
       /\ next_cat_id <= Len(DefaultCategories) + 1
       /\ cb_cat_delete(1, FirstCategory(1))

SpecEdit == Init /\ [][NextEdit]_vars

\* Concurrent deposits and withdraws: user 1 creates a goal and both users
\* deposit to it or withdraw from it, 5 at a time. The updates that carry
\* the note are handled as coroutines: one user may send the note twice, and
\* the handlers of the two users run at the same time.
ConcurrentGoalsAlphabet == {C_goals_add, T_E, T_10, T_5, T_dash}

NoTaskOf(u) == \A t \in TaskIds : tasks[t].user # u

ConcurrentGoalsTexts(u) ==
    LET s == fsm_state[u]
    IN  IF ~NoTaskOf(u) THEN {}
        ELSE CASE s = NoState ->
                      IF u = 1 /\ saving_goals = <<>> THEN {C_goals_add}
                      ELSE {}
               [] s = "CreateGoalStates:entering_name" -> {T_E}
               [] s = "CreateGoalStates:entering_target" -> {T_10}
               [] s = "GoalMoneyStates:entering_amount" -> {T_5}
               [] OTHER -> {}

NextConcurrentGoals ==
    \/ \E u \in Users, text \in ConcurrentGoalsAlphabet :
          \/ text \in ConcurrentGoalsTexts(u) /\ cmd_goals_add(u, text)
          \/ text \in ConcurrentGoalsTexts(u) /\ goal_enter_name(u, text)
          \/ text \in ConcurrentGoalsTexts(u) /\ goal_enter_target(u, text)
          \/ text \in ConcurrentGoalsTexts(u) /\ goal_money_amount(u, text)
    \/ \E u \in Users :
          /\ fsm_state[u] = NoState /\ NoTaskOf(u)
          /\ Len(saving_goal_transactions) < MaxGoalTx
          /\ cb_goal_deposit(u, 1)
    \/ \E u \in Users :
          /\ fsm_state[u] = NoState /\ NoTaskOf(u)
          /\ Len(saving_goal_transactions) < MaxGoalTx
          /\ cb_goal_withdraw(u, 1)
    \/ \E t \in TaskIds, u \in Users :
          /\ fsm_state[u] = "GoalMoneyStates:entering_note"
          /\ goal_money_note_begin(t, u, T_dash)
    \/ \E t \in TaskIds : goal_money_note_resume(t)

SpecConcurrentGoals == Init /\ [][NextConcurrentGoals]_vars

\* Concurrent updates at the wallet step: each user brings one add flow to
\* its last step and then sends updates that are handled as coroutines: the
\* name of a wallet, a blank, a name no wallet bears; user 1 may send a
\* second update while the handler of the first is suspended.
ConcurrentAddAlphabet == {B_expense, T_5, T_10, T_E, T_blank}

ConcurrentAddTexts(u) ==
    LET s == fsm_state[u]
    IN  IF ~NoTaskOf(u) THEN {}
        ELSE CASE s = NoState ->
                      IF \A i \in 1..Len(transactions) :
                            transactions[i].user_id # u
                      THEN {B_expense} ELSE {}
               [] s = "AddTransactionStates:entering_amount_note" -> {T_5}
               [] s = "AddTransactionStates:choosing_category" -> {T_E}
               [] OTHER -> {}

WalletStepTexts(u) == IF u = 1 THEN {T_E, T_blank, T_10} ELSE {T_E}

NextConcurrentAdd ==
    \/ \E u \in Users, text \in ConcurrentAddAlphabet :
          \/ text \in ConcurrentAddTexts(u) /\ add_expense_btn(u, text)
          \/ text \in ConcurrentAddTexts(u) /\ add_tx_amount_note(u, text)
          \/ text \in ConcurrentAddTexts(u) /\ add_tx_category(u, text)
    \/ \E t \in TaskIds, u \in Users, text \in ConcurrentAddAlphabet :
          /\ text \in WalletStepTexts(u)
          /\ u = 2 => NoTaskOf(u)
          /\ add_tx_wallet_begin(t, u, text)
    \/ \E t \in TaskIds : add_tx_wallet_resume(t)

SpecConcurrentAdd == Init /\ [][NextConcurrentAdd]_vars

\* The categories: user 1 opens /categories, adds a category E of either
\* type, records an expense labelled E, and presses the delete button of
\* the first or of the last category of the list; user 2 opens /categories
\* and deletes from the head of the list. The delete buttons are pressed
\* until the default categories have been inserted a second time.
CategoriesAlphabet == {C_categories, B_expense, T_5, T_E, T_blank}

CategoriesTexts(u) ==
    LET s == fsm_state[u]
    IN  IF u = 1
        THEN CASE s = NoState ->
                      {C_categories} \cup
                      (IF transactions = <<>> THEN {B_expense} ELSE {})
               [] s = "AddTransactionStates:entering_amount_note" -> {T_5}
               [] s = "AddTransactionStates:choosing_category" -> {T_E}
               [] s = "AddTransactionStates:choosing_wallet" -> {T_E}
               [] s = "CategoryStates:entering_name" -> {T_E, T_blank}
               [] OTHER -> {}
        ELSE CASE s = NoState -> {C_categories}
               [] OTHER -> {}

LastCategory(u) ==
    LET own == SelectSeq(categories, LAMBDA c : c.user_id = u)
    IN  IF own = <<>> THEN 0 ELSE own[Len(own)].id

\* Before the second insertion of the defaults, and of one added category.
FewCategoriesYet == next_cat_id <= 2 * Len(DefaultCategories) + 2

NextCategories ==
    \/ \E u \in Users, text \in CategoriesAlphabet :
          \/ text \in CategoriesTexts(u) /\ cmd_categories(u, text)
          \/ text \in CategoriesTexts(u) /\ add_expense_btn(u, text)
          \/ text \in CategoriesTexts(u) /\ add_tx_amount_note(u, text)
          \/ text \in CategoriesTexts(u) /\ add_tx_category(u, text)
          \/ text \in CategoriesTexts(u) /\ add_tx_wallet(u, text)
          \/ text \in CategoriesTexts(u) /\ cat_enter_name(u, text)
    \/ /\ fsm_state[1] = NoState
       /\ \A i \in 1..Len(categories) : categories[i].name # T_E
       /\ cb_cat_add(1)
    \/ \E cat_type \in {"income", "expense"} :
          /\ fsm_state[1] = "CategoryStates:choosing_type"
          /\ cb_cat_type(1, cat_type)
    \/ \E u \in Users :
          /\ fsm_state[u] = NoState
          /\ FewCategoriesYet
          /\ FirstCategory(u) # 0
          /\ cb_cat_delete(u, FirstCategory(u))
    \/ /\ fsm_state[1] = NoState
       /\ FewCategoriesYet
       /\ LastCategory(1) # 0
       /\ cb_cat_delete(1, LastCategory(1))

SpecCategories == Init /\ [][NextCategories]_vars

\* The limits that are set: either user sets month limits of 5 and of 10 on
\* the categories E and L, again and again, and types the amount 0 in
\* between.
SetLimitAlphabet == {C_limit, T_E, T_L, T_5, T_10, T_0}

SetLimitTexts(u) ==
    LET s == fsm_state[u]
    IN  CASE s = NoState -> {C_limit}
          [] s = "LimitStates:choosing_category" -> {T_E, T_L}
          [] s = "LimitStates:entering_amount" -> {T_5, T_10, T_0}
          [] OTHER -> {}

NextSetLimit ==
    \E u \in Users, text \in SetLimitAlphabet :
       \/ text \in SetLimitTexts(u) /\ cmd_limit(u, text)
       \/ text \in SetLimitTexts(u) /\ limit_choose_category(u, text)
       \/ text \in SetLimitTexts(u) /\ limit_enter_amount(u, text)

SpecSetLimit == Init /\ [][NextSetLimit]_vars

\* The menus: user 1 goes through /add, /transfer and /categories, and
\* presses a button of any of the menus at any moment: the direction of a
\* new transaction, the edit button of transaction 1, a field of the edit,
\* the add button of the categories and the direction of a new category. One
\* transaction and one category are added.
MenusAlphabet == {C_add, C_transfer, C_categories, T_5, T_10, T_E, T_L}

MenusTexts ==
    LET s == fsm_state[1]
    IN  CASE s = NoState ->
                 IF next_tx_id <= 1 THEN {C_add, C_transfer, C_categories}
                 ELSE {C_transfer}
          [] s = "AddTransactionStates:choosing_type" -> {C_transfer}
          [] s = "AddTransactionStates:entering_amount_note" -> {T_5}
          [] s = "AddTransactionStates:choosing_category" -> {T_E}
          [] s = "AddTransactionStates:choosing_wallet" -> {T_E}
          [] s = "TransferStates:choosing_from_wallet" -> {T_E}
          [] s = "TransferStates:choosing_to_wallet" -> {T_L}
          [] s = "TransferStates:entering_amount" -> {C_categories}
          [] s = "EditTransactionStates:editing_field" -> {T_10}
          [] s = "CategoryStates:entering_name" ->
                 IF next_cat_id <= Len(DefaultCategories) + 1 THEN {T_L}
                 ELSE {C_categories}
          [] OTHER -> {}

NextMenus ==
    \/ \E text \in MenusAlphabet :
          \/ text \in MenusTexts /\ cmd_add(1, text)
          \/ text \in MenusTexts /\ add_tx_amount_note(1, text)
          \/ text \in MenusTexts /\ add_tx_category(1, text)
          \/ text \in MenusTexts /\ add_tx_wallet(1, text)
          \/ text \in MenusTexts /\ cmd_transfer(1, text)
          \/ text \in MenusTexts /\ transfer_choose_from(1, text)
          \/ text \in MenusTexts /\ transfer_choose_to(1, text)
          \/ text \in MenusTexts /\ cmd_categories(1, text)
          \/ text \in MenusTexts /\ edit_tx_field_value(1, text)
          \/ text \in MenusTexts /\ cat_enter_name(1, text)
    \/ cb_add_tx_type(1, "expense")
    \/ cb_tx_edit(1, 1)
    \/ cb_edit_field(1, "amount")
    \/ cb_cat_add(1)
    \/ cb_cat_type(1, "expense")

SpecMenus == Init /\ [][NextMenus]_vars

\* /start at every step: user 1 goes through every flow, answering each
\* prompt with a text of the kind it asks for, and may send /start instead
\* at any step and between the flows.
StartAlphabet ==
    {C_start, C_add, B_expense, C_budget, C_salary, C_wallets_add,
     C_transfer, C_goals_add, C_limit, C_export_month, T_5, T_10, T_E, T_L,
     T_dash, T_month}

StartTexts ==
    LET s == fsm_state[1]
    IN  {C_start} \cup
        CASE s = NoState ->
                 IF Committed <= 1
                 THEN {C_add, B_expense, C_budget, C_salary, C_wallets_add,
                       C_transfer, C_goals_add, C_limit, C_export_month}
                 ELSE {}
          [] s = "AddTransactionStates:entering_amount_note" -> {T_5}
          [] s = "AddTransactionStates:choosing_category" -> {T_E}
          [] s = "AddTransactionStates:choosing_wallet" -> {T_E}
          [] s = "BudgetStates:entering_income" -> {T_10}
          [] s = "SalaryStates:entering_amount" -> {T_10}
          [] s = "WalletAddStates:entering_name" -> {T_5}
          [] s = "TransferStates:choosing_from_wallet" -> {T_E}
          [] s = "TransferStates:choosing_to_wallet" -> {T_L}
          [] s = "TransferStates:entering_amount" -> {T_5}
          [] s = "TransferStates:entering_note" -> {T_dash}
          [] s = "CreateGoalStates:entering_name" -> {T_E}
          [] s = "CreateGoalStates:entering_target" -> {T_10}
          [] s = "GoalMoneyStates:entering_amount" -> {T_5}
          [] s = "GoalMoneyStates:entering_note" -> {T_dash}
          [] s = "EditTransactionStates:editing_field" -> {T_10}
          [] s = "CategoryStates:entering_name" -> {T_L}
          [] s = "LimitStates:choosing_category" -> {T_L}
          [] s = "LimitStates:entering_amount" -> {T_5}
          [] s = "ExportMonthStates:entering_period" -> {T_month}
          [] OTHER -> {}

NextStart ==
    \/ \E text \in StartAlphabet :
          \/ text \in StartTexts /\ cmd_start(1, text)
          \/ text \in StartTexts /\ cmd_add(1, text)
          \/ text \in StartTexts /\ add_expense_btn(1, text)
          \/ text \in StartTexts /\ add_tx_amount_note(1, text)
          \/ text \in StartTexts /\ add_tx_category(1, text)
          \/ text \in StartTexts /\ add_tx_wallet(1, text)
          \/ text \in StartTexts /\ cmd_budget(1, text)
          \/ text \in StartTexts /\ budget_income(1, text)
          \/ text \in StartTexts /\ cmd_salary(1, text)
          \/ text \in StartTexts /\ salary_enter_amount(1, text)
          \/ text \in StartTexts /\ cmd_wallets_add(1, text)
          \/ text \in StartTexts /\ wallets_add_enter_name(1, text)
          \/ text \in StartTexts /\ cmd_transfer(1, text)
          \/ text \in StartTexts /\ transfer_choose_from(1, text)
          \/ text \in StartTexts /\ transfer_choose_to(1, text)
          \/ text \in StartTexts /\ transfer_enter_amount(1, text)
          \/ text \in StartTexts /\ transfer_enter_note(1, text, FALSE)
          \/ text \in StartTexts /\ cmd_goals_add(1, text)
          \/ text \in StartTexts /\ goal_enter_name(1, text)
          \/ text \in StartTexts /\ goal_enter_target(1, text)
          \/ text \in StartTexts /\ goal_money_amount(1, text)
          \/ text \in StartTexts /\ goal_money_note(1, text)
          \/ text \in StartTexts /\ edit_tx_field_value(1, text)
          \/ text \in StartTexts /\ cat_enter_name(1, text)
          \/ text \in StartTexts /\ cmd_limit(1, text)
          \/ text \in StartTexts /\ limit_choose_category(1, text)
          \/ text \in StartTexts /\ limit_enter_amount(1, text)
          \/ text \in StartTexts /\ cmd_export_month(1, text)
          \/ text \in StartTexts /\ export_month_enter_period(1, text)
    \/ /\ fsm_state[1] = "AddTransactionStates:choosing_type"
       /\ cb_add_tx_type(1, "income")
    \/ Idle(1) /\ cb_goal_deposit(1, 1)
    \/ Idle(1) /\ cb_tx_edit(1, 1)
    \/ Idle(1) /\ cb_cat_add(1)
    \/ /\ fsm_state[1] = "EditTransactionStates:choosing_field"
       /\ cb_edit_field(1, "amount")
    \/ /\ fsm_state[1] = "CategoryStates:choosing_type"
       /\ cb_cat_type(1, "expense")

SpecStart == Init /\ [][NextStart]_vars

\* Every handler, for every user, text and button.
Next ==
    \/ \E u \in Users, text \in Texts :
          \/ cmd_start(u, text)
          \/ add_income_btn(u, text)
          \/ add_expense_btn(u, text)
          \/ goals_btn(u, text)
          \/ budget_btn(u, text)
          \/ categories_btn(u, text)
          \/ cmd_add(u, text)
          \/ add_tx_amount_note(u, text)
          \/ add_tx_category(u, text)
          \/ add_tx_wallet(u, text)
          \/ cmd_budget(u, text)
          \/ budget_income(u, text)
          \/ cmd_salary(u, text)
          \/ salary_enter_amount(u, text)
          \/ cmd_wallets_add(u, text)
          \/ wallets_add_enter_name(u, text)
          \/ cmd_transfer(u, text)
          \/ transfer_choose_from(u, text)
          \/ transfer_choose_to(u, text)
          \/ transfer_enter_amount(u, text)
          \/ \E store_fails \in BOOLEAN :
                transfer_enter_note(u, text, store_fails)
          \/ cmd_goals(u, text)
          \/ cmd_goals_add(u, text)
          \/ goal_enter_name(u, text)
          \/ goal_enter_target(u, text)
          \/ goal_money_amount(u, text)
          \/ goal_money_note(u, text)
          \/ edit_tx_field_value(u, text)
          \/ cmd_categories(u, text)
          \/ cat_enter_name(u, text)
          \/ cmd_limit(u, text)
          \/ limit_choose_category(u, text)
          \/ limit_enter_amount(u, text)
          \/ cmd_export_month(u, text)
          \/ export_month_enter_period(u, text)
          \/ cmd_read_only(u, text)
          \/ cmd_no_effect(u, text)
    \/ \E u \in Users :
          \/ \E tx_type \in {"income", "expense"} : cb_add_tx_type(u, tx_type)
          \/ \E total \in {5, 10} :
                cb_budget_note(u, total) \/ cb_budget_goals(u, total)
          \/ cb_goal_create_new(u)
          \/ \E goal_id \in 1..MaxGoals :
                cb_goal_deposit(u, goal_id) \/ cb_goal_withdraw(u, goal_id)
          \/ \E tx_id \in 1..MaxTx :
                cb_tx_delete(u, tx_id) \/ cb_tx_edit(u, tx_id)
          \/ \E field \in {"amount", "category", "note"} :
                cb_edit_field(u, field)
          \/ cb_cat_add(u)
          \/ \E cat_type \in {"income", "expense"} : cb_cat_type(u, cat_type)
          \/ \E cat_id \in 1..MaxCategories : cb_cat_delete(u, cat_id)
          \/ cb_read_only(u)
    \/ Tick

Spec == Init /\ [][Next]_vars

-----------------------------------------------------------------------------
(* Calls of the pure functions: parse_vietnamese_money and                   *)
(* extract_amount_and_note on every text of a bounded alphabet               *)

program_vars == <<db_vars, fsm_state, fsm_data, user_goal_action_context,
                  user_edit_tx_context, now, reply, message, tasks>>

\* The longest text made of the alphabet.
MaxTextLen == 3

TextAlphabet == {"0", "1", "5", ".", ",", "k", "K", "t", "r", " ", "a"}

\* The texts the documentation of the two functions names.
T_1_5tr    == <<"1", ".", "5", "t", "r">>
T_1c5tr    == <<"1", ",", "5", "t", "r">>
T_200k     == <<"2", "0", "0", "k">>
T_1_trieu  == <<"1", " ", "t", "r", "i", "ệ", "u">>
T_150_000  == <<"1", "5", "0", ".", "0", "0", "0">>
T_150000   == <<"1", "5", "0", "0", "0", "0">>
\* "35k an sáng": the first letter of the note carries a breve in the source's
\* example, a letter outside the character set of this module; the functions
\* treat every letter of a note alike.
T_35k_note == <<"3", "5", "k", " ", "a", "n", " ", "s", "á", "n", "g">>

ParserTexts ==
    {T_1_5tr, T_1c5tr, T_200k, T_1_trieu, T_150_000, T_150000, T_35k_note}
        \cup UNION {[1..n -> TextAlphabet] : n \in 0..MaxTextLen}

InitParser ==
    /\ Started
    /\ \E text \in ParserTexts : calc = [op |-> "text", text |-> text]

ParseCall ==
    /\ calc.op = "text"
    /\ calc' = [op |-> "parse_vietnamese_money", text |-> calc.text,
                out |-> parse_vietnamese_money(calc.text)]
    /\ UNCHANGED program_vars

ExtractCall ==
    /\ calc.op = "text"
    /\ calc' = [op |-> "extract_amount_and_note", text |-> calc.text,
                out |-> extract_amount_and_note(calc.text)]
    /\ UNCHANGED program_vars

NextParser ==
    \/ ParseCall
    \/ ExtractCall

SpecParser == InitParser /\ [][NextParser]_vars

-----------------------------------------------------------------------------
(* Python floats as IEEE 754 binary64, for the products and sums of the      *)
(* 4-2-2-2 rule. A natural number is a sequence of binary digits, least      *)
(* significant first, with no zero at the top. A positive float is           *)
(* [m, e], the number m * 2^e with m odd and below 2^53; zero is [<<>>, 0].  *)
(* The amounts stay far from the ends of the exponent range.                 *)

RECURSIVE Trim(_)
Trim(b) ==
    IF b # <<>> /\ b[Len(b)] = 0 THEN Trim(SubSeq(b, 1, Len(b) - 1)) ELSE b

RECURSIVE BitsOf(_)
BitsOf(n) == IF n = 0 THEN <<>> ELSE <<n % 2>> \o BitsOf(n \div 2)

RECURSIVE NatOf(_)
NatOf(b) == IF b = <<>> THEN 0 ELSE Head(b) + 2 * NatOf(Tail(b))

RECURSIVE BAddC(_, _, _)
BAddC(a, b, c) ==
    IF a = <<>> /\ b = <<>> THEN (IF c = 1 THEN <<1>> ELSE <<>>)
    ELSE LET x == IF a = <<>> THEN 0 ELSE Head(a)
             y == IF b = <<>> THEN 0 ELSE Head(b)
         IN  <<(x + y + c) % 2>>
                \o BAddC(IF a = <<>> THEN a ELSE Tail(a),
                         IF b = <<>> THEN b ELSE Tail(b), (x + y + c) \div 2)

BAdd(a, b) == BAddC(a, b, 0)

RECURSIVE BMul(_, _)
BMul(a, b) ==
    IF b = <<>> THEN <<>>
    ELSE IF Head(b) = 1 THEN BAdd(a, <<0>> \o BMul(a, Tail(b)))
    ELSE <<0>> \o BMul(a, Tail(b))

RECURSIVE Zeros(_)
Zeros(n) == IF n <= 0 THEN <<>> ELSE <<0>> \o Zeros(n - 1)

DZero == [m |-> <<>>, e |-> 0]

\* The float of mantissa m and exponent e with the low zeros of m moved into
\* the exponent.
RECURSIVE Canon(_, _)
Canon(m, e) ==
    IF m = <<>> THEN DZero
    ELSE IF Head(m) = 0 THEN Canon(Tail(m), e + 1)
    ELSE [m |-> m, e |-> e]

\* Round to nearest, ties to even, at 53 significant digits.
Round53(m, e) ==
    IF Len(m) <= 53 THEN Canon(m, e)
    ELSE LET d    == Len(m) - 53
             kept == SubSeq(m, d + 1, Len(m))
             up   == /\ m[d] = 1
                     /\ \/ kept[1] = 1
                        \/ \E i \in 1..(d - 1) : m[i] = 1
         IN  Canon(IF up THEN BAdd(kept, <<1>>) ELSE kept, e + d)

\* float(n) of an integer below 2^31.
DFromNat(n) == Canon(BitsOf(n), 0)

\* The first n binary digits of r / den after the point (r < den), and the
\* remainder after them.
RECURSIVE FracDiv(_, _, _, _)
FracDiv(r, den, n, acc) ==
    IF n = 0 THEN [q |-> acc, r |-> r]
    ELSE IF 2 * r >= den THEN FracDiv(2 * r - den, den, n - 1, <<1>> \o acc)
    ELSE FracDiv(2 * r, den, n - 1, <<0>> \o acc)

\* The float nearest to num / den (0 < num < den): what the compiler makes
\* of a decimal literal. One digit below the 60 of the quotient records a
\* remainder other than zero.
DRatio(num, den) ==
    LET d == FracDiv(num, den, 60, <<>>)
    IN  Round53(Trim(<<IF d.r = 0 THEN 0 ELSE 1>> \o d.q), 0 - 61)

\* The literals 0.4 and 0.2.
D04 == DRatio(4, 10)
D02 == DRatio(2, 10)

\* a * b: the exact product, rounded once.
DMul(a, b) ==
    IF a.m = <<>> \/ b.m = <<>> THEN DZero
    ELSE Round53(Trim(IF Len(a.m) <= Len(b.m) THEN BMul(b.m, a.m)
                      ELSE BMul(a.m, b.m)), a.e + b.e)

\* a + b: the exact sum, rounded once.
DAdd(a, b) ==
    IF a.m = <<>> THEN b
    ELSE IF b.m = <<>> THEN a
    ELSE LET lo == IF a.e <= b.e THEN a.e ELSE b.e
         IN  Round53(BAdd(Zeros(a.e - lo) \o a.m, Zeros(b.e - lo) \o b.m), lo)

\* SUM(amount) over REAL values: the values added in row order.
RECURSIVE DSum(_)
DSum(s) ==
    IF s = <<>> THEN DZero
    ELSE DAdd(DSum(SubSeq(s, 1, Len(s) - 1)), s[Len(s)])

\* The number f"{x:,.0f}" shows: x rounded to an integer, ties to even.
Fmt0(x) ==
    IF x.m = <<>> THEN 0
    ELSE IF x.e >= 0 THEN NatOf(Zeros(x.e) \o x.m)
    ELSE LET k    == 0 - x.e
             int  == IF k >= Len(x.m) THEN 0
                     ELSE NatOf(SubSeq(x.m, k + 1, Len(x.m)))
             half == k <= Len(x.m) /\ x.m[k] = 1
             low  == \E i \in 1..(k - 1) : i <= Len(x.m) /\ x.m[i] = 1
         IN  IF half /\ (low \/ int % 2 = 1) THEN int + 1 ELSE int

\* essential, long_term, invest, personal of a total.
Allocation(total) ==
    <<DMul(total, D04), DMul(total, D02), DMul(total, D02), DMul(total, D02)>>

\* The greatest total the allocation is computed for.
MaxTotal == 40

InitAllocator ==
    /\ Started
    /\ \E t \in 1..MaxTotal : calc = [op |-> "total", total |-> t]

\* budget_income on a total: the four amounts as the answer shows them.
BudgetCall ==
    /\ calc.op = "total"
    /\ calc' = [op |-> "budget_income", total |-> calc.total,
                shown |-> [i \in 1..4 |->
                              Fmt0(Allocation(DFromNat(calc.total))[i])]]
    /\ UNCHANGED program_vars

\* cb_budget_note on the total of its button: the row save_budget inserts.
SnapshotCall ==
    /\ calc.op = "total"
    /\ calc' = [op |-> "cb_budget_note", total |-> calc.total,
                stored |-> Allocation(DFromNat(calc.total))]
    /\ UNCHANGED program_vars

\* salary_enter_amount on a total, for a user with no transaction yet: the
\* amounts of the four rows, and get_balance after them.
SalaryCall ==
    /\ calc.op = "total"
    /\ calc' = [op |-> "salary_enter_amount", total |-> calc.total,
                amounts |-> Allocation(DFromNat(calc.total)),
                balance |-> DSum(Allocation(DFromNat(calc.total)))]
    /\ UNCHANGED program_vars

NextAllocator ==
    \/ BudgetCall
    \/ SnapshotCall
    \/ SalaryCall

SpecAllocator == InitAllocator /\ [][NextAllocator]_vars

-----------------------------------------------------------------------------
(* Transfers: C1, C2 *)

IsTransferOut(t) == t.category # <<>> /\ t.category[1] = ">"
IsTransferIn(t)  == t.category # <<>> /\ t.category[1] = "<"

\* C1: the transfer commit is atomic. In every reachable state, the store
\* failing on the second insert included, the expense leg on the source
\* wallet and the income leg on the destination wallet are both in the store
\* or neither is.
C1_TransferAtomic ==
    \A i \in 1..Len(transactions) :
       LET t == transactions[i]
       IN  /\ IsTransferOut(t) =>
                \E j \in 1..Len(transactions) :
                   /\ transactions[j].id = t.id + 1
                   /\ IsTransferIn(transactions[j])
                   /\ transactions[j].user_id = t.user_id
                   /\ transactions[j].amount = t.amount
           /\ IsTransferIn(t) =>
                \E j \in 1..Len(transactions) :
                   /\ transactions[j].id = t.id - 1
                   /\ IsTransferOut(transactions[j])

\* The step in which transfer_enter_note commits the transfer of user u.
TransferCommits(u) ==
    /\ fsm_state[u] = "TransferStates:entering_note"
    /\ reply' = [user |-> u, handler |-> "transfer_enter_note",
                 kind |-> "ok"]

\* C2: after a transfer of amount X from wallet A to wallet B commits, the
\* derived balance of A is lower by exactly X, the derived balance of B is
\* higher by exactly X, the balance of every other wallet is unchanged, and
\* the total balance of the user is unchanged.
C2_TransferMovesX ==
    [][\A u \in Users :
          TransferCommits(u) =>
             LET A == fsm_data[u].from_wallet_id
                 B == fsm_data[u].to_wallet_id
                 X == fsm_data[u].amount
             IN  /\ get_wallet_balance(transactions', u, A)
                       = FSub(get_wallet_balance(transactions, u, A), X)
                 /\ get_wallet_balance(transactions', u, B)
                       = FAdd(get_wallet_balance(transactions, u, B), X)
                 /\ \A i \in 1..Len(wallets') :
                       wallets'[i].id \notin {A, B} =>
                          get_wallet_balance(transactions',
                                             wallets'[i].user_id,
                                             wallets'[i].id)
                             = get_wallet_balance(transactions,
                                                  wallets'[i].user_id,
                                                  wallets'[i].id)
                 /\ get_balance(transactions', u)
                       = get_balance(transactions, u)]_vars

-----------------------------------------------------------------------------
(* Balances: C3, C4 *)

\* The sum of the amounts of the rows of one type that reference a wallet,
\* taken row by row.
RECURSIVE WalletTotal(_, _, _)
WalletTotal(rows, wallet_id, tx_type) ==
    IF rows = <<>> THEN 0
    ELSE (IF /\ Head(rows).wallet_id = wallet_id
             /\ Head(rows).type = tx_type
             /\ Head(rows).amount # NULL
          THEN Head(rows).amount ELSE 0)
         + WalletTotal(Tail(rows), wallet_id, tx_type)

\* The sum of the amounts of the rows of one type that belong to a user.
RECURSIVE UserTotal(_, _, _)
UserTotal(rows, user_id, tx_type) ==
    IF rows = <<>> THEN 0
    ELSE (IF /\ Head(rows).user_id = user_id
             /\ Head(rows).type = tx_type
             /\ Head(rows).amount # NULL
          THEN Head(rows).amount ELSE 0)
         + UserTotal(Tail(rows), user_id, tx_type)

\* C3: in every reachable state and for every wallet, the derived balance of
\* the wallet equals the sum of the amounts of the income transactions minus
\* the sum of the amounts of the expense transactions over exactly the
\* transactions that reference the wallet, after any sequence of add,
\* transfer, salary split, edit and delete.
C3_WalletBalanceDerived ==
    \A i \in 1..Len(wallets) :
       get_wallet_balance(transactions, wallets[i].user_id, wallets[i].id)
          = WalletTotal(transactions, wallets[i].id, "income")
               - WalletTotal(transactions, wallets[i].id, "expense")

\* A wallet with income and expense rows and a balance that is not zero,
\* right after one of its owner's transactions was edited.
C3_Witness ==
    /\ reply = [user |-> 1, handler |-> "edit_tx_field_value", kind |-> "ok"]
    /\ \E i \in 1..Len(wallets) :
          /\ WalletTotal(transactions, wallets[i].id, "income") > 0
          /\ WalletTotal(transactions, wallets[i].id, "expense") > 0
          /\ get_wallet_balance(transactions, wallets[i].user_id,
                                wallets[i].id) # 0

\* C4: in every reachable state the total balance of a user equals income
\* minus expense summed over all of the transactions of that user, and never
\* includes a transaction of another user.
C4_UserBalanceOwnRows ==
    \A u \in Users :
       get_balance(transactions, u)
          = UserTotal(transactions, u, "income")
               - UserTotal(transactions, u, "expense")

\* Both users hold transactions, and their totals differ.
C4_Witness ==
    /\ \A u \in Users : \E i \in 1..Len(transactions) :
          transactions[i].user_id = u
    /\ get_balance(transactions, 1) < 0
    /\ get_balance(transactions, 2) > 0

-----------------------------------------------------------------------------
(* Saving goals: C5, C6, C7 *)

\* C5: in every reachable state every saving goal has current_amount >= 0,
\* after any sequence of goal creations, deposits and withdraws by any users.
C5_GoalsNonNegative ==
    \A i \in 1..Len(saving_goals) :
       /\ saving_goals[i].current_amount # NULL
       /\ saving_goals[i].current_amount >= 0

\* User u is at the note step of a withdraw whose amount is greater than
\* the current_amount of the goal.
WithdrawExceeds(u) ==
    /\ fsm_state[u] = "GoalMoneyStates:entering_note"
    /\ u \in DOMAIN user_goal_action_context
    /\ user_goal_action_context[u].action = "withdraw"
    /\ LET goal == get_goal(saving_goals,
                            user_goal_action_context[u].goal_id)
       IN  /\ goal # <<>>
           /\ goal[1].current_amount # NULL
           /\ fsm_data[u].amount # NaN
           /\ fsm_data[u].amount > goal[1].current_amount

\* C6: a withdraw whose amount is greater than the current_amount of the
\* goal is rejected: current_amount is unchanged and no history record is
\* appended.
C6_WithdrawRejected ==
    [][\A u \in Users :
          (/\ WithdrawExceeds(u)
           /\ reply'.user = u
           /\ reply'.handler = "goal_money_note")
             => /\ saving_goals' = saving_goals
                /\ saving_goal_transactions' = saving_goal_transactions
                /\ reply'.kind = "error"]_vars

\* The withdraw of user 1 was just rejected, from a goal that holds money.
C6_Witness ==
    /\ reply = [user |-> 1, handler |-> "goal_money_note", kind |-> "error"]
    /\ WithdrawExceeds(1)
    /\ get_goal(saving_goals,
                user_goal_action_context[1].goal_id)[1].current_amount > 0

\* C7: after a withdraw is rejected because the amount exceeds
\* current_amount, the session is re-prompted at the amount step, so that
\* the next text of the user is a new amount for the same goal.
C7_RejectedWithdrawReprompts ==
    [][\A u \in Users :
          (/\ WithdrawExceeds(u)
           /\ reply' = [user |-> u, handler |-> "goal_money_note",
                        kind |-> "error"])
             => fsm_state'[u] = "GoalMoneyStates:entering_amount"]_vars

-----------------------------------------------------------------------------
(* Sessions: C8, C9, C10 *)

\* The session fields that hold a text the user typed at a step.
TextFields == {"category", "goal_name"}

\* C8: the start command of another flow abandons the current flow: the
\* text of the command is never consumed as the field value of the current
\* step.
C8_CommandNeverConsumed ==
    \A u \in Users : \A k \in DOMAIN fsm_data[u] \cap TextFields :
       fsm_data[u][k] \notin Commands

\* The commands that start a flow by a prompt for its first step.
FlowStarts ==
    {"cmd_add", "cmd_budget", "cmd_salary", "cmd_transfer", "cmd_goals_add",
     "cmd_limit", "cmd_export_month"}

\* C9: starting a new flow discards the prior incomplete session:
\* immediately after a flow start no field value collected by the previous
\* flow remains in the session.
C9_FlowStartDiscards ==
    (reply.handler \in FlowStarts /\ reply.kind = "prompt")
       => fsm_data[reply.user] = EmptyDict

\* C10: the goal-action context and the edit context of a user are present
\* only while the session of that user is in the goal deposit / withdraw
\* flow or in the edit flow.
C10_ContextsFollowSession ==
    \A u \in Users :
       /\ u \in DOMAIN user_goal_action_context =>
             fsm_state[u] \in {"GoalMoneyStates:entering_amount",
                               "GoalMoneyStates:entering_note"}
       /\ u \in DOMAIN user_edit_tx_context =>
             fsm_state[u] \in {"EditTransactionStates:choosing_field",
                               "EditTransactionStates:editing_field"}

-----------------------------------------------------------------------------
(* The money parser: C16, C17, C18 *)

ParseOf(text) ==
    calc.op = "parse_vietnamese_money" /\ calc.text = text

\* C16: parse("1.5tr") returns 1500000, and so does parse("1,5tr").
C16_OneAndAHalfMillion ==
    (ParseOf(T_1_5tr) \/ ParseOf(T_1c5tr))
       => (calc.out.ok /\ calc.out.v = 1500000)

\* What the code returns on the two texts.
C16_FifteenMillion ==
    (ParseOf(T_1_5tr) \/ ParseOf(T_1c5tr))
       => (calc.out.ok /\ calc.out.v = 15000000)

\* The text lower-cased and without its spaces, character by character.
Squeezed(text) ==
    SelectSeq([i \in 1..Len(text) |-> LowerChar(text[i])], LAMBDA c : c # " ")

SuffixLen(s) ==
    IF Len(s) >= 1 /\ s[Len(s)] = "k" THEN 1
    ELSE IF Len(s) >= 2 /\ s[Len(s) - 1] = "t" /\ s[Len(s)] = "r" THEN 2
    ELSE 0

Multiplier(s) ==
    CASE SuffixLen(s) = 1 -> 1000 [] SuffixLen(s) = 2 -> 1000000 [] OTHER -> 1

\* The digits of the text before the multiplier, '.' and ',' left out.
DigitsBefore(s) ==
    SelectSeq(SubSeq(s, 1, Len(s) - SuffixLen(s)), LAMBDA c : c \in Digits)

\* Before the multiplier there are digits, '.' and ',' only, one digit at
\* least.
WellFormed(s) ==
    /\ \A i \in 1..(Len(s) - SuffixLen(s)) : s[i] \in Digits \cup {".", ","}
    /\ DigitsBefore(s) # <<>>

OverAlphabet(text) == \A i \in 1..Len(text) : text[i] \in TextAlphabet

ExtractOf(text) ==
    calc.op = "extract_amount_and_note" /\ calc.text = text

\* The place of the first space of a text that has one, else one past its end.
FirstSpace(s) ==
    IF \E i \in 1..Len(s) : s[i] = " "
    THEN CHOOSE i \in 1..Len(s) : s[i] = " " /\ \A j \in 1..(i - 1) : s[j] # " "
    ELSE Len(s) + 1

\* C18: extract_amount_and_note splits its trimmed input at the first run of
\* whitespace, parses the first token only and returns the trimmed remainder
\* (or the empty text) as the note: "35k an sáng" gives (35000, "an sáng"),
\* "150000" gives (150000, ""); it fails when the input is empty or its first
\* token does not parse.
C18_SplitAmountAndNote ==
    calc.op = "extract_amount_and_note" =>
       LET r     == strip(calc.text)
           token == SubSeq(r, 1, FirstSpace(r) - 1)
           rest  == strip(SubSeq(r, FirstSpace(r), Len(r)))
       IN  /\ calc.out.ok <=> (r # <<>> /\ parse_vietnamese_money(token).ok)
           /\ calc.out.ok =>
                 /\ calc.out.v = parse_vietnamese_money(token).v
                 /\ calc.out.note = rest
           /\ calc.text = T_35k_note =>
                 calc.out = [ok |-> TRUE, v |-> 35000,
                             note |-> <<"a", "n", " ", "s", "á", "n", "g">>]
           /\ calc.text = T_150000 =>
                 calc.out = [ok |-> TRUE, v |-> 150000, note |-> <<>>]

C18_Witness ==
    /\ ExtractOf(<<"5", " ", "a">>)
    /\ calc.out = [ok |-> TRUE, v |-> 5, note |-> <<"a">>]

-----------------------------------------------------------------------------
(* The 4-2-2-2 rule in floats: C19, C20 *)

\* The integer products the handlers of the session model use are the float
\* products on the totals those handlers are given.
TimesExactOnInputs ==
    (calc.op = "cb_budget_note" /\ calc.total \in {5, 10}) =>
       /\ calc.stored[1] = DFromNat(Times04(calc.total))
       /\ \A i \in 2..4 : calc.stored[i] = DFromNat(Times02(calc.total))

\* C19: for every total income T the four buckets sum to exactly T, both as
\* the Budget flow displays them and as a saved budget snapshot stores them.
C19_BucketsSumToTotal ==
    /\ calc.op = "budget_income" =>
          calc.shown[1] + calc.shown[2] + calc.shown[3] + calc.shown[4]
             = calc.total
    /\ calc.op = "cb_budget_note" => DSum(calc.stored) = DFromNat(calc.total)

\* C20: a salary split of a valid total T > 0 creates four income
\* transactions of amounts 0.4 T, 0.2 T, 0.2 T, 0.2 T, after which the total
\* balance of the user has risen by exactly T.
C20_SalaryRaisesBalanceByTotal ==
    calc.op = "salary_enter_amount" =>
       /\ calc.amounts = Allocation(DFromNat(calc.total))
       /\ calc.balance = DFromNat(calc.total)

-----------------------------------------------------------------------------
(* The month limits: C14, C15 *)

Months == 0..(MaxNow \div MonthLen)

\* The sum of the expenses of a user in a category stamped from the first
\* instant of month k up to, and without, the first instant of month k + 1.
MonthToDate(rows, user_id, category, k) ==
    SqlSum(Column(SelectSeq(rows,
                            LAMBDA t : /\ t.user_id = user_id
                                       /\ t.type = "expense"
                                       /\ t.category = category
                                       /\ t.created_at >= k * MonthLen
                                       /\ t.created_at < (k + 1) * MonthLen),
                  FALSE))

LimitCategories == {T_E, T_L}

\* The step of add_tx_wallet that inserts an expense of user u.
ExpenseCommits(u) ==
    /\ Len(transactions') = Len(transactions) + 1
    /\ reply'.handler = "add_tx_wallet"
    /\ reply'.user = u
    /\ transactions'[Len(transactions')].type = "expense"

\* C14: the limit check is advisory and comes after the commit: the expense
\* is inserted whether or not a limit is exceeded, and the confirmation
\* carries the warning exactly when a month limit exists for the user and
\* the category and the month-to-date spend, the expense just committed
\* included, is greater than that limit.
C14_WarningIffExceeded ==
    [][\A u \in Users :
          ExpenseCommits(u) =>
             LET new   == transactions'[Len(transactions')]
                 limit == SelectSeq(limits,
                                    LAMBDA l : /\ l.user_id = u
                                               /\ l.category = new.category
                                               /\ l.period = "month")
             IN  (reply'.kind = "ok_warn")
                    <=> /\ limit # <<>>
                        /\ MonthToDate(transactions', u, new.category,
                                       new.created_at \div MonthLen)
                              > limit[1].limit_amount]_vars

\* C15: the month-to-date spend of a category is the sum of the user's
\* expenses in that category stamped at or after the first instant of the
\* month and before the first instant of the next month; an expense stamped
\* at the first instant of the next month is left out, so every expense is
\* counted in one month only.
C15_MonthWindowHalfOpen ==
    \A u \in Users, category \in LimitCategories, k \in Months :
       get_spent_in_month_for_category(transactions, u, category, k * MonthLen)
          = MonthToDate(transactions, u, category, k)

-----------------------------------------------------------------------------
(* The steps of the flows: C11, C12, C13 *)

\* C11: at every input step of every flow an input that fails validation
\* (an amount that does not parse or is not above 0, an empty name or
\* category, a wallet name that matches no wallet, a transfer destination
\* equal to the source) leaves the flow, the step and the fields collected
\* so far as they were and changes nothing in the store.
C11_InvalidInputChangesNothing ==
    [][reply'.kind = "error" =>
          /\ fsm_state' = fsm_state
          /\ fsm_data' = fsm_data
          /\ UNCHANGED db_vars]_vars

\* The handlers that start a flow or take a step of it before the last.
NonFinalSteps ==
    {"cmd_add", "add_income_btn", "add_expense_btn", "cb_add_tx_type",
     "add_tx_amount_note", "add_tx_category", "cmd_budget", "budget_btn",
     "budget_income", "cmd_salary", "cmd_wallets_add", "cmd_transfer",
     "transfer_choose_from", "transfer_choose_to", "transfer_enter_amount",
     "cmd_goals_add", "cb_goal_create_new", "goal_enter_name",
     "cb_goal_deposit", "cb_goal_withdraw", "goal_money_amount", "cb_tx_edit",
     "cb_edit_field", "cb_cat_add", "cb_cat_type", "cmd_limit",
     "limit_choose_category", "cmd_export_month"}

\* The categories that are not among the defaults of ensure_default_categories.
UserAdded(rows) ==
    SelectSeq(rows,
              LAMBDA c : \A i \in 1..Len(DefaultCategories) :
                            \/ DefaultCategories[i].name # c.name
                            \/ DefaultCategories[i].type # c.type)

\* C12: a flow changes the ledger at its last step only: the steps before
\* it never change the stored transactions, goals, goal history, limits,
\* budget snapshots or the categories the user added; in the Budget flow
\* entering the income changes nothing.
C12_OnlyFinalStepMutates ==
    [][reply'.handler \in NonFinalSteps =>
          /\ UNCHANGED <<transactions, saving_goals, saving_goal_transactions,
                         limits, budgets>>
          /\ UserAdded(categories') = UserAdded(categories)]_vars

C12_Witness ==
    /\ reply = [user |-> 1, handler |-> "budget_income", kind |-> "ok"]
    /\ message = T_10
    /\ transactions # <<>>
    /\ budgets = <<>>

\* The ids of the wallets of user u whose name is the text, ignoring case.
MatchingWallets(u, text) ==
    {wallets[i].id : i \in {j \in 1..Len(wallets) :
                               /\ wallets[j].user_id = u
                               /\ lower(wallets[j].name) = lower(strip(text))}}

\* C13: the last step of the AddTransaction flow, given a wallet name that
\* matches a wallet of the acting user ignoring case, inserts one
\* transaction: its direction, amount, note and category are those the
\* earlier steps of the flow collected, its wallet is a wallet of the acting
\* user that bears the name.
C13_FinalStepInsertsCollected ==
    [][\A u \in Users :
          (/\ fsm_state[u] = "AddTransactionStates:choosing_wallet"
           /\ reply'.user = u
           /\ reply'.handler = "add_tx_wallet"
           /\ MatchingWallets(u, message') # {})
          => /\ Len(transactions') = Len(transactions) + 1
             /\ SubSeq(transactions', 1, Len(transactions)) = transactions
             /\ LET row == transactions'[Len(transactions')]
                IN  /\ row.user_id = u
                    /\ row.type = fsm_data[u].tx_type
                    /\ row.amount = fsm_data[u].amount
                    /\ row.note = fsm_data[u].note
                    /\ row.category = fsm_data[u].category
                    /\ row.wallet_id \in MatchingWallets(u, message')]_vars

C13_Witness ==
    /\ reply = [user |-> 1, handler |-> "add_tx_wallet", kind |-> "ok"]
    /\ message = T_e
    /\ transactions # <<>>
    /\ transactions[Len(transactions)].user_id = 1
    /\ transactions[Len(transactions)].amount = 5
    /\ transactions[Len(transactions)].category = T_E
    /\ transactions[Len(transactions)].wallet_id \in MatchingWallets(1, T_E)

-----------------------------------------------------------------------------
(* The stored amounts: C21 *)

\* C21: in every reachable state every stored transaction has an amount
\* that is a number greater than 0.
C21_AmountsPositive ==
    \A i \in 1..Len(transactions) :
       IsNum(transactions[i].amount) /\ transactions[i].amount > 0

-----------------------------------------------------------------------------
(* The edit of a transaction: C22, C23 *)

\* The steps that commit an edit of user u: the session leaves the value
\* step with the confirmation of edit_tx_field_value.
EditCommits(u) ==
    /\ fsm_state[u] = "EditTransactionStates:editing_field"
    /\ fsm_state'[u] = NoState
    /\ reply' = [user |-> u, handler |-> "edit_tx_field_value", kind |-> "ok"]

\* What the typed text makes of the selected field.
EditedValue(field, text) ==
    CASE field = "amount" -> ToSql(extract_amount_and_note(text).v)
      [] field = "category" -> strip(text)
      [] field = "note" ->
             IF strip(text) = <<"-">> THEN <<>> ELSE strip(text)

\* C22: a committed edit of field f of transaction t overwrites field f of
\* t with the typed value and nothing else: the other fields of t and every
\* other transaction are as they were.
C22_EditOverwritesOneField ==
    [][\A u \in Users :
          EditCommits(u) =>
             LET ctx == user_edit_tx_context[u]
             IN  /\ Len(transactions') = Len(transactions)
                 /\ \E i \in 1..Len(transactions) :
                       /\ transactions[i].id = ctx.tx_id
                       /\ transactions[i].user_id = u
                 /\ \A i \in 1..Len(transactions) :
                       IF transactions[i].id = ctx.tx_id
                       THEN transactions'[i] =
                               [transactions[i] EXCEPT
                                   ![ctx.field] =
                                       EditedValue(ctx.field, message')]
                       ELSE transactions'[i] = transactions[i]]_vars

\* The category of user 1's expense was edited from E to L beside another
\* row: its amount and its note are the ones recorded.
C22_Witness ==
    /\ reply = [user |-> 1, handler |-> "edit_tx_field_value", kind |-> "ok"]
    /\ message = T_L
    /\ Len(transactions) >= 2
    /\ \E i \in 1..Len(transactions) :
          /\ transactions[i].user_id = 1
          /\ transactions[i].category = T_L
          /\ transactions[i].amount = 5
          /\ transactions[i].note = T_L
    /\ \E i \in 1..Len(transactions) : transactions[i].category = T_E

\* The steps in which the value step of the edit flow of user u finds the
\* selected transaction gone.
EditFindsNothing(u) ==
    /\ fsm_state[u] = "EditTransactionStates:editing_field"
    /\ message' \in Texts
    /\ RouteTable[fsm_state[u]][message'] = "edit_tx_field_value"
    /\ reply'.user = u
    /\ reply'.handler = "edit_tx_field_value"
    /\ u \in DOMAIN user_edit_tx_context
    /\ get_transaction(transactions, u, user_edit_tx_context[u].tx_id) = <<>>

\* The steps in which the commit step of a goal deposit or withdraw of user
\* u finds the goal gone.
GoalFindsNothing(u) ==
    /\ fsm_state[u] = "GoalMoneyStates:entering_note"
    /\ message' \in Texts
    /\ RouteTable[fsm_state[u]][message'] = "goal_money_note"
    /\ reply'.user = u
    /\ reply'.handler = "goal_money_note"
    /\ u \in DOMAIN user_goal_action_context
    /\ get_goal(saving_goals, user_goal_action_context[u].goal_id) = <<>>

\* C23: a flow that finds its transaction or its goal gone is aborted: no
\* table changes and the session of the user is cleared.
C23_MissingEntityAborts ==
    [][\A u \in Users :
          EditFindsNothing(u) \/ GoalFindsNothing(u) =>
             /\ UNCHANGED db_vars
             /\ fsm_state'[u] = NoState
             /\ fsm_data'[u] = EmptyDict
             /\ reply'.kind = "abort"]_vars

-----------------------------------------------------------------------------
(* Concurrent deposits and withdraws: C24 *)

\* The deposits less the withdraws the history holds for a goal.
GoalHistoryTotal(goal_id) ==
    LET of(tx_type) ==
            SelectSeq(saving_goal_transactions,
                      LAMBDA g : g.goal_id = goal_id /\ g.type = tx_type)
        amounts(rows) == [i \in 1..Len(rows) |-> rows[i].amount]
    IN  SumSeq(amounts(of("deposit"))) - SumSeq(amounts(of("withdraw")))

\* C24: however the handlers of concurrent deposits and withdraws on one
\* goal interleave at their awaits, no update is lost: the current amount of
\* every goal is its initial amount, 0, plus the committed deposits minus
\* the committed withdraws.
C24_NoLostUpdate ==
    \A i \in 1..Len(saving_goals) :
       saving_goals[i].current_amount = GoalHistoryTotal(saving_goals[i].id)

\* Two handlers that were suspended at the same time have both committed a
\* deposit, and neither has finished.
C24_Witness ==
    /\ \A t \in TaskIds : tasks[t].pc \in {"clear", "pop", "answer_ok"}
    /\ \A t \in TaskIds : tasks[t].ctx.action = "deposit"
    /\ Len(saving_goal_transactions) = 2
    /\ saving_goals[1].current_amount = 10

-----------------------------------------------------------------------------
(* One update of a user at a time: C25 *)

\* C25: processing is serialized per user. No handler of an update of a
\* user starts while another handler of that user is suspended, and no
\* handler inserts a transaction while another handler of the same user,
\* still suspended, has inserted one: two updates that meet at the wallet
\* step commit one transaction, not two.
C25_SerializedPerUser ==
    [][\A t \in TaskIds :
          /\ (tasks[t].pc = "idle" /\ tasks'[t].pc # "idle") =>
                \A t2 \in TaskIds \ {t} : tasks[t2].user # tasks'[t].user
          /\ (tasks[t].pc = "body" /\ tasks'[t].tx_id # 0) =>
                \A t2 \in TaskIds \ {t} :
                   ~(tasks[t2].user = tasks[t].user /\ tasks[t2].tx_id # 0)
      ]_vars

-----------------------------------------------------------------------------
(* The default categories and the deletion of a category: C26, C30 *)

\* The category rows of user u that a step has inserted.
InsertedCategories(u) ==
    SelectSeq(categories', LAMBDA c : c.user_id = u /\ c.id >= next_cat_id)

\* The step inserts the set of default categories for user u.
DefaultsInserted(u) ==
    /\ Len(InsertedCategories(u)) >= Len(DefaultCategories)
    /\ \A i \in 1..Len(DefaultCategories) :
          /\ InsertedCategories(u)[i].name = DefaultCategories[i].name
          /\ InsertedCategories(u)[i].type = DefaultCategories[i].type

\* C26: the default categories are inserted for a user at the first contact
\* and by no later step, whatever categories were added or deleted since.
C26_DefaultsProvisionedOnce ==
    [][\A u \in Users : DefaultsInserted(u) => u \notin users]_vars

\* The steps of cb_cat_delete.
CategoryDeleted ==
    /\ message' = <<>>
    /\ reply'.handler = "cb_cat_delete"
    /\ categories' # categories

\* C30: deleting a category changes no transaction, whatever its label, and
\* hence no wallet balance and no total balance.
C30_DeleteKeepsTransactions ==
    [][CategoryDeleted =>
          /\ transactions' = transactions
          /\ \A u \in Users :
                /\ get_balance(transactions', u) = get_balance(transactions, u)
                /\ \A i \in 1..Len(wallets) :
                      get_wallet_balance(transactions', u, wallets[i].id)
                         = get_wallet_balance(transactions, u, wallets[i].id)
      ]_vars

\* The category E that user 1 had added was deleted, and the expense of
\* user 1 still bears the label E.
C30_Witness ==
    /\ reply = [user |-> 1, handler |-> "cb_cat_delete", kind |-> "ok"]
    /\ next_cat_id > Len(DefaultCategories) + 1
    /\ \A i \in 1..Len(categories) : categories[i].name # T_E
    /\ Len(transactions) = 1
    /\ transactions[1].user_id = 1
    /\ transactions[1].category = T_E
    /\ transactions[1].amount = 5
    /\ get_balance(transactions, 1) = -5

-----------------------------------------------------------------------------
(* The default wallets: C27 *)

\* The wallets of user u with the purpose of the i-th default wallet.
CanonicalWallets(u, i) ==
    SelectSeq(wallets, LAMBDA w : /\ w.user_id = u
                                  /\ w.purpose = DefaultWallets[i].purpose)

\* C27: a user that was seen has each of the four canonical wallets exactly
\* once, whatever updates followed and whatever wallets were added; a user
\* that was not seen has no wallet.
C27_DefaultWalletsOnce ==
    \A u \in Users :
       IF u \in users
       THEN \A i \in 1..Len(DefaultWallets) :
               /\ Len(CanonicalWallets(u, i)) = 1
               /\ CanonicalWallets(u, i)[1].name = DefaultWallets[i].name
       ELSE get_wallets(wallets, u) = <<>>

\* User 1 has added a wallet to the four and has since gone through
\* another flow, which looked the user up again.
C27_Witness ==
    /\ Len(get_wallets(wallets, 1)) = Len(DefaultWallets) + 1
    /\ Len(get_wallets(wallets, 2)) = Len(DefaultWallets)
    /\ reply = [user |-> 1, handler |-> "add_tx_wallet", kind |-> "ok"]

-----------------------------------------------------------------------------
(* The limits that are set: C28 *)

\* The steps that commit a limit of user u.
LimitCommits(u) ==
    /\ fsm_state[u] = "LimitStates:entering_amount"
    /\ fsm_state'[u] = NoState
    /\ reply' = [user |-> u, handler |-> "limit_enter_amount", kind |-> "ok"]

\* The rows of a limits table that are not of the key.
OtherLimits(rows, user_id, category) ==
    SelectSeq(rows, LAMBDA l : ~(/\ l.user_id = user_id
                                 /\ l.category = category
                                 /\ l.period = "month"))

\* C28: after a SetLimit commit the table holds one limit for the key
\* (user, category, 'month'), with the amount just typed, no key has two
\* limits, and the limits of the other keys are the ones there were.
C28_OneLimitPerKey ==
    [][\A u \in Users :
          LimitCommits(u) =>
             LET category == fsm_data[u].category
                 mine     == get_limit(limits', u, category, "month")
             IN  /\ Len(mine) = 1
                 /\ mine[1].limit_amount
                       = extract_amount_and_note(message').v
                 /\ OtherLimits(limits', u, category)
                       = OtherLimits(limits, u, category)
                 /\ \A v \in Users, c \in {T_E, T_L} :
                       Len(get_limit(limits', v, c, "month")) <= 1]_vars

\* User 1 has replaced the limit of 5 on E by one of 10, beside three other
\* limits.
C28_Witness ==
    /\ reply = [user |-> 1, handler |-> "limit_enter_amount", kind |-> "ok"]
    /\ message = T_10
    /\ Len(limits) = 4
    /\ limits[1] = [user_id |-> 1, category |-> T_E, period |-> "month",
                    limit_amount |-> 10]

-----------------------------------------------------------------------------
(* The two wallets of a transfer: C29 *)

\* The steps in which user u names the source wallet at the destination step.
ChoosesSourceAsDestination(u) ==
    /\ fsm_state[u] = "TransferStates:choosing_to_wallet"
    /\ message' \in Texts
    /\ RouteTable[fsm_state[u]][message'] = "transfer_choose_to"
    /\ reply'.user = u
    /\ reply'.handler = "transfer_choose_to"
    /\ LET to_wallet == WalletNamed(wallets', u, strip(message'))
       IN  /\ to_wallet # <<>>
           /\ to_wallet[1].id = fsm_data[u].from_wallet_id

\* C29: the source wallet named as destination is rejected and the session
\* stays at the destination step; a transfer that commits adds an expense leg
\* and an income leg on two different wallets, both of the user.
C29_TransferTwoWallets ==
    [][\A u \in Users :
          /\ ChoosesSourceAsDestination(u) =>
                /\ reply'.kind = "error"
                /\ fsm_state'[u] = "TransferStates:choosing_to_wallet"
                /\ fsm_data'[u] = fsm_data[u]
                /\ UNCHANGED transactions
          /\ TransferCommits(u) =>
                /\ Len(transactions') = Len(transactions) + 2
                /\ SubSeq(transactions', 1, Len(transactions)) = transactions
                /\ LET out == transactions'[Len(transactions) + 1]
                       in  == transactions'[Len(transactions) + 2]
                   IN  /\ out.type = "expense" /\ out.user_id = u
                       /\ in.type = "income" /\ in.user_id = u
                       /\ out.wallet_id # in.wallet_id
                       /\ get_wallet(wallets', u, out.wallet_id) # <<>>
                       /\ get_wallet(wallets', u, in.wallet_id) # <<>>]_vars

\* After a transfer from E to L was committed, user 1 starts another from E
\* and names E as its destination: the answer is the error.
C29_Witness ==
    /\ reply = [user |-> 1, handler |-> "transfer_choose_to", kind |-> "error"]
    /\ message = T_E
    /\ fsm_state[1] = "TransferStates:choosing_to_wallet"
    /\ fsm_data[1].from_wallet_id = WalletNamed(wallets, 1, T_E)[1].id
    /\ \E i \in 1..(Len(transactions) - 1) :
          /\ transactions[i].type = "expense"
          /\ transactions[i].category = TransferToCategory(T_L)
          /\ transactions[i].wallet_id = WalletNamed(wallets, 1, T_E)[1].id
          /\ transactions[i + 1].type = "income"
          /\ transactions[i + 1].wallet_id = WalletNamed(wallets, 1, T_L)[1].id

-----------------------------------------------------------------------------
(* Deposits: C31 *)

\* The steps in which the note step of user u handles a deposit of a
\* positive amount into a goal that exists.
DepositOfPositive(u) ==
    /\ fsm_state[u] = "GoalMoneyStates:entering_note"
    /\ message' \in Texts
    /\ RouteTable[fsm_state[u]][message'] = "goal_money_note"
    /\ reply'.user = u
    /\ reply'.handler = "goal_money_note"
    /\ u \in DOMAIN user_goal_action_context
    /\ user_goal_action_context[u].action = "deposit"
    /\ get_goal(saving_goals, user_goal_action_context[u].goal_id) # <<>>
    /\ FGt(fsm_data[u].amount, 0)

\* C31: a deposit of a > 0 into a goal that exists sets current_amount to
\* current + a, whatever the target, leaves the other goals alone and appends
\* one deposit record of amount a to the history.
C31_DepositAlwaysSucceeds ==
    [][\A u \in Users :
          DepositOfPositive(u) =>
             LET goal_id == user_goal_action_context[u].goal_id
                 a       == fsm_data[u].amount
                 before  == get_goal(saving_goals, goal_id)[1]
                 after   == get_goal(saving_goals', goal_id)[1]
                 n       == Len(saving_goal_transactions)
             IN  /\ after.current_amount = before.current_amount + a
                 /\ after.target_amount = before.target_amount
                 /\ \A i \in 1..Len(saving_goals) :
                       saving_goals[i].id # goal_id =>
                          saving_goals'[i] = saving_goals[i]
                 /\ Len(saving_goal_transactions') = n + 1
                 /\ SubSeq(saving_goal_transactions', 1, n)
                       = saving_goal_transactions
                 /\ saving_goal_transactions'[n + 1].goal_id = goal_id
                 /\ saving_goal_transactions'[n + 1].type = "deposit"
                 /\ saving_goal_transactions'[n + 1].amount = a]_vars

-----------------------------------------------------------------------------
(* The session after a commit: C32 *)

\* The handlers of the final steps of the flows that write.
FinalHandlers ==
    {"add_tx_wallet", "transfer_enter_note", "goal_enter_target",
     "goal_money_note", "limit_enter_amount", "cat_enter_name",
     "edit_tx_field_value", "salary_enter_amount"}

\* The steps in which the final step of a flow of user u commits.
FlowCommits(u) ==
    /\ message' \in Texts
    /\ RouteTable[fsm_state[u]][message'] \in FinalHandlers
    /\ reply' = [user |-> u, handler |-> RouteTable[fsm_state[u]][message'],
                 kind |-> "ok"]

\* C32: after the final step of a flow commits, the user has no state, no
\* collected field and no entry in either context dictionary.
C32_SessionDestroyed ==
    [][\A u \in Users :
          FlowCommits(u) =>
             /\ fsm_state'[u] = NoState
             /\ fsm_data'[u] = EmptyDict
             /\ u \notin DOMAIN user_goal_action_context'
             /\ u \notin DOMAIN user_edit_tx_context']_vars

-----------------------------------------------------------------------------
(* The goals of another user: C33 *)

\* The steps of the deposit / withdraw flow that user u drives.
GoalStepOf(u) ==
    /\ reply'.user = u
    /\ reply'.handler \in {"cb_goal_deposit", "cb_goal_withdraw",
                           "goal_money_amount", "goal_money_note"}

\* The history records of the goals that user u does not own.
HistoryOfOthers(history, goals, u) ==
    SelectSeq(history,
              LAMBDA g : \E i \in 1..Len(goals) :
                            goals[i].id = g.goal_id /\ goals[i].user_id # u)

\* C33: the deposit / withdraw flow of user u changes no goal and no history
\* record of another owner, and a deposit or withdraw button is accepted
\* only for a goal that u owns.
C33_GoalsIsolated ==
    [][\A u \in Users :
          GoalStepOf(u) =>
             /\ \A i \in 1..Len(saving_goals) :
                   saving_goals[i].user_id # u =>
                      saving_goals'[i] = saving_goals[i]
             /\ HistoryOfOthers(saving_goal_transactions', saving_goals, u)
                   = HistoryOfOthers(saving_goal_transactions,
                                     saving_goals, u)
             /\ (/\ reply'.handler \in {"cb_goal_deposit", "cb_goal_withdraw"}
                 /\ reply'.kind = "prompt")
                   => get_goal(saving_goals,
                               user_goal_action_context'[u].goal_id)[1].user_id
                         = u]_vars

-----------------------------------------------------------------------------
(* The buttons of a step: C34 *)

\* The step of the session each menu belongs to.
MenuStep ==
    [cb_add_tx_type |-> "AddTransactionStates:choosing_type",
     cb_edit_field  |-> "EditTransactionStates:choosing_field",
     cb_cat_type    |-> "CategoryStates:choosing_type"]

\* C34: a selection of the direction menu of AddTransaction, of the field
\* menu of EditTransaction or of the direction menu of AddCategory that
\* arrives while the session of the user is not at the step of that menu
\* leaves the state of the session as it is.
C34_MenuOnlyAtItsStep ==
    [][\A u \in Users :
          (/\ message' = <<>>
           /\ reply'.user = u
           /\ reply'.handler \in DOMAIN MenuStep
           /\ fsm_state[u] # MenuStep[reply'.handler])
             => fsm_state'[u] = fsm_state[u]]_vars

-----------------------------------------------------------------------------
(* The legs of the transfers over the history of the ledger: C35 *)

\* The amounts of the transfer legs of user u of one direction.
LegAmounts(u, tx_type) ==
    LET legs == SelectSeq(transactions,
                          LAMBDA t : /\ t.user_id = u
                                     /\ t.type = tx_type
                                     /\ IsTransferOut(t) \/ IsTransferIn(t))
    IN  [i \in 1..Len(legs) |-> legs[i].amount]

\* C35: in every reachable state, after edits and deletions as well, every
\* expense leg of a transfer has an income leg of the same user and the same
\* amount on another wallet, and the legs of the transfers of a user add
\* nothing to the total balance of that user.
C35_TransfersStayBalanced ==
    /\ \A i \in 1..Len(transactions) :
          (IsTransferOut(transactions[i]) /\ transactions[i].type = "expense")
             => \E j \in 1..Len(transactions) :
                   /\ IsTransferIn(transactions[j])
                   /\ transactions[j].type = "income"
                   /\ transactions[j].user_id = transactions[i].user_id
                   /\ transactions[j].amount = transactions[i].amount
                   /\ transactions[j].wallet_id # transactions[i].wallet_id
    /\ \A u \in Users :
          SumSeq(LegAmounts(u, "income")) = SumSeq(LegAmounts(u, "expense"))

-----------------------------------------------------------------------------
(* The history of a goal accounts for its amount: C36 *)

\* SUM(amount) over the history records of a goal of one type.
HistorySum(goal_id, tx_type) ==
    LET rows == SelectSeq(saving_goal_transactions,
                          LAMBDA g : g.goal_id = goal_id /\ g.type = tx_type)
    IN  SqlSum([i \in 1..Len(rows) |-> rows[i].amount])

\* C36: the current_amount of every goal is a number, the sum of its
\* deposit records minus the sum of its withdraw records; a step leaves the
\* history as it is or appends one record to it, and a rejected deposit or
\* withdraw appends none.
C36_HistoryAccountsForGoals ==
    /\ [](\A i \in 1..Len(saving_goals) :
             /\ saving_goals[i].current_amount # NULL
             /\ saving_goals[i].current_amount
                   = HistorySum(saving_goals[i].id, "deposit")
                        - HistorySum(saving_goals[i].id, "withdraw"))
    /\ [][/\ \/ saving_goal_transactions' = saving_goal_transactions
             \/ /\ Len(saving_goal_transactions')
                      = Len(saving_goal_transactions) + 1
                /\ SubSeq(saving_goal_transactions', 1,
                          Len(saving_goal_transactions))
                      = saving_goal_transactions
          /\ (reply'.handler = "goal_money_note" /\ reply'.kind # "ok")
                => saving_goal_transactions' = saving_goal_transactions]_vars

-----------------------------------------------------------------------------
(* The wallet of every transaction: C37 *)

\* The derived balances of the wallets of user u, in get_wallets order.
WalletBalances(u) ==
    LET own == get_wallets(wallets, u)
    IN  [i \in 1..Len(own) |->
            get_wallet_balance(transactions, u, own[i].id)]

\* C37: every stored transaction references a wallet of the user of the
\* transaction, and the total balance of every user is the sum of the
\* derived balances of the wallets of that user.
C37_TransactionsOnOwnWallets ==
    /\ \A i \in 1..Len(transactions) :
          get_wallet(wallets, transactions[i].user_id,
                     transactions[i].wallet_id) # <<>>
    /\ \A u \in Users :
          get_balance(transactions, u) = SumSeq(WalletBalances(u))

\* User 2 holds an income, and user 1 has moved money between two wallets:
\* one balance is below zero, the other above, and the total is zero.
C37_Witness ==
    /\ get_balance(transactions, 2) > 0
    /\ Len(WalletBalances(1)) >= 2
    /\ WalletBalances(1)[1] < 0
    /\ WalletBalances(1)[2] > 0
    /\ get_balance(transactions, 1) = 0

-----------------------------------------------------------------------------
(* The wallets of the salary split: C38 *)

\* The steps in which the amount step of /salary of user u gets a valid
\* amount.
SalaryOfValid(u) ==
    /\ fsm_state[u] = "SalaryStates:entering_amount"
    /\ message' \in Texts
    /\ RouteTable[fsm_state[u]][message'] = "salary_enter_amount"
    /\ reply'.user = u
    /\ reply'.handler = "salary_enter_amount"
    /\ extract_amount_and_note(message').ok
    /\ FGt(extract_amount_and_note(message').v, 0)

\* C38: every registered user has one wallet of each of the four canonical
\* purposes, and a salary split with a valid amount never answers that the
\* wallets are missing: it adds four incomes, one on the wallet of each
\* purpose.
C38_SalaryFindsItsWallets ==
    /\ [](\A u \in users : \A i \in 1..Len(DefaultWallets) :
             Cardinality({k \in 1..Len(wallets) :
                             /\ wallets[k].user_id = u
                             /\ wallets[k].purpose
                                   = DefaultWallets[i].purpose}) = 1)
    /\ [][\A u \in Users :
             SalaryOfValid(u) =>
                /\ reply'.kind = "ok"
                /\ Len(transactions') = Len(transactions) + 4
                /\ SubSeq(transactions', 1, Len(transactions)) = transactions
                /\ \A i \in 1..Len(DefaultWallets) :
                      LET t == transactions'[Len(transactions) + i]
                          w == get_wallet(wallets', u, t.wallet_id)
                      IN  /\ t.user_id = u
                          /\ t.type = "income"
                          /\ w # <<>>
                          /\ w[1].purpose = DefaultWallets[i].purpose]_vars

\* User 1, who has added a fifth wallet, has just split a salary.
C38_Witness ==
    /\ reply = [user |-> 1, handler |-> "salary_enter_amount", kind |-> "ok"]
    /\ Len(get_wallets(wallets, 1)) = Len(DefaultWallets) + 1
    /\ Len(transactions) >= 4

-----------------------------------------------------------------------------
(* The transactions of another user: C39 *)

\* The transactions that user u does not own.
RowsOfOthers(rows, u) == SelectSeq(rows, LAMBDA t : t.user_id # u)

\* C39: a step driven by user u, an edit or delete button with the id of a
\* transaction of another user included, leaves the transactions of the
\* other users, their wallets and their balances as they were; the edit
\* button is accepted only for a transaction of u.
C39_TransactionsIsolated ==
    [][\A u \in Users :
          reply'.user = u =>
             /\ RowsOfOthers(transactions', u) = RowsOfOthers(transactions, u)
             /\ \A v \in Users \ {u} :
                   /\ get_wallets(wallets', v) = get_wallets(wallets, v)
                   /\ get_balance(transactions', v)
                         = get_balance(transactions, v)
                   /\ \A w \in 1..Len(wallets) :
                         get_wallet_balance(transactions', v, wallets[w].id)
                            = get_wallet_balance(transactions, v,
                                                 wallets[w].id)
             /\ (reply' = [user |-> u, handler |-> "cb_tx_edit",
                           kind |-> "prompt"])
                   => get_transaction(transactions, u,
                                      user_edit_tx_context'[u].tx_id)
                         # <<>>]_vars

\* Every transaction id there is belongs to user 1, and the delete button
\* that user 2 pressed was refused.
C39_Witness ==
    /\ reply = [user |-> 2, handler |-> "cb_tx_delete", kind |-> "abort"]
    /\ Len(transactions) = MaxTx
    /\ \A i \in 1..Len(transactions) :
          transactions[i].user_id = 1 /\ transactions[i].id = i

-----------------------------------------------------------------------------
(* /start: C40 *)

\* C40: in every session state the text /start goes to cmd_start, never to
\* the handler of the current step, and the step of cmd_start leaves the
\* user with no state and no collected field and changes no transaction,
\* goal, goal history, limit or budget snapshot.
C40_StartAlwaysResets ==
    /\ [](\A s \in States : RouteTable[s][C_start] = "cmd_start")
    /\ [][\A u \in Users :
             (message' = C_start /\ reply'.user = u) =>
                /\ reply'.handler = "cmd_start"
                /\ fsm_state'[u] = NoState
                /\ fsm_data'[u] = EmptyDict
                /\ UNCHANGED <<transactions, saving_goals,
                               saving_goal_transactions, limits,
                               budgets>>]_vars

\* /start was sent while the store held a transaction and a limit: the
\* session is gone and both are still there.
C40_Witness ==
    /\ message = C_start
    /\ reply = [user |-> 1, handler |-> "cmd_start", kind |-> "info"]
    /\ fsm_state[1] = NoState
    /\ fsm_data[1] = EmptyDict
    /\ Len(transactions) = 1
    /\ Len(limits) = 1

=============================================================================
